---------------------------- MODULE Spec2Model ----------------------------
(***************************************************************************)
(* WebTermux (Ado926/Hostx): the in-memory virtual filesystem (MemStorage) *)
(* and the per-connection command interpreter (TerminalProcessor).         *)
(*                                                                         *)
(* JavaScript strings are TLA+ strings (sequences of characters); the      *)
(* string methods the code uses are defined below with their JavaScript    *)
(* meaning.  `undefined` and `null` are the two sentinel values Undefined  *)
(* and Null, which no input contains.  A FileSystemItem is modelled by the *)
(* fields the interpreter reads and writes (path, name, type, content,     *)
(* permissions, size); id, createdAt and updatedAt are never read by any   *)
(* handler and are left out.  Texts that depend on the clock or on         *)
(* Math.random() (wget, curl, top, ps, df, free) carry a fixed stand-in    *)
(* for the varying part; long fixed texts are cut after their first line.  *)
(***************************************************************************)
EXTENDS Integers, Sequences, FiniteSets, TLC

(***************************************************************************)
(* Bounds of the model.                                                    *)
(***************************************************************************)
NumSessions == 2
MaxCommands == 2

Sessions == 1..NumSessions

(***************************************************************************)
(* JavaScript values and string methods.                                   *)
(***************************************************************************)
Undefined == "<undefined>"
Null == "<null>"

\* x || y on strings: undefined, null and "" are falsy.
OrElse(x, y) == IF x = Undefined \/ x = Null \/ x = "" THEN y ELSE x

\* `${x}` inside a template literal.
Str(x) == IF x = Undefined THEN "undefined" ELSE IF x = Null THEN "null" ELSE x

\* args[i], 0-based; undefined outside the array.
At(arr, i) == IF i >= 0 /\ i < Len(arr) THEN arr[i + 1] ELSE Undefined

Max(a, b) == IF a >= b THEN a ELSE b
Min(a, b) == IF a <= b THEN a ELSE b

CharAt(s, i) == SubSeq(s, i + 1, i + 1)

StartsWith(s, p) == Len(p) <= Len(s) /\ SubSeq(s, 1, Len(p)) = p

EndsWith(s, p) == Len(p) <= Len(s) /\ SubSeq(s, Len(s) - Len(p) + 1, Len(s)) = p

\* s.indexOf(p): 0-based index of the first occurrence, -1 when there is none.
IndexOf(s, p) ==
  LET hits == {i \in 0..(Len(s) - Len(p)) : SubSeq(s, i + 1, i + Len(p)) = p}
  IN  IF hits = {} THEN -1 ELSE CHOOSE i \in hits : \A j \in hits : i <= j

\* s.lastIndexOf(p)
LastIndexOf(s, p) ==
  LET hits == {i \in 0..(Len(s) - Len(p)) : SubSeq(s, i + 1, i + Len(p)) = p}
  IN  IF hits = {} THEN -1 ELSE CHOOSE i \in hits : \A j \in hits : i >= j

Includes(s, p) == IndexOf(s, p) # -1

\* s.substring(a, b): negative indices count as 0, indices past the end as length.
Substring(s, a, b) ==
  LET lo == Min(Max(Min(a, b), 0), Len(s))
      hi == Min(Max(Max(a, b), 0), Len(s))
  IN  SubSeq(s, lo + 1, hi)

\* s.substring(a)
SubstringFrom(s, a) == Substring(s, a, Len(s))

\* s.slice(0, -1)
DropLast(s) == SubSeq(s, 1, Len(s) - 1)

\* s.replace(p, r) with a string pattern: the first occurrence only.
Replace(s, p, r) ==
  LET i == IndexOf(s, p)
  IN  IF i = -1 THEN s
      ELSE SubSeq(s, 1, i) \o r \o SubSeq(s, i + Len(p) + 1, Len(s))

\* s.replace(/c/g, '') for a single character c.
RECURSIVE RemoveAll(_, _)
RemoveAll(s, c) ==
  IF s = "" THEN ""
  ELSE IF Head(s) = c THEN RemoveAll(Tail(s), c)
       ELSE Head(s) \o RemoveAll(Tail(s), c)

\* s.split(c) for a single character c: the pieces between the separators,
\* empty pieces included.
RECURSIVE SplitFrom(_, _, _)
SplitFrom(s, c, cur) ==
  IF s = "" THEN <<cur>>
  ELSE IF Head(s) = c THEN <<cur>> \o SplitFrom(Tail(s), c, "")
       ELSE SplitFrom(Tail(s), c, cur \o Head(s))

Split(s, c) == SplitFrom(s, c, "")

\* arr.pop() on a fresh array: its last element.
Pop(arr) == IF Len(arr) = 0 THEN Undefined ELSE arr[Len(arr)]

\* arr.join(sep)
RECURSIVE Join(_, _)
Join(arr, sep) ==
  IF Len(arr) = 0 THEN ""
  ELSE IF Len(arr) = 1 THEN arr[1]
       ELSE arr[1] \o sep \o Join(Tail(arr), sep)

\* arr.includes(x)
ArrIncludes(arr, x) == \E i \in 1..Len(arr) : arr[i] = x

\* arr.indexOf(x), 0-based
ArrIndexOf(arr, x) ==
  LET hits == {i \in 1..Len(arr) : arr[i] = x}
  IN  IF hits = {} THEN -1 ELSE (CHOOSE i \in hits : \A j \in hits : i <= j) - 1

\* arr.slice(a, b), 0-based, b exclusive
Slice(arr, a, b) == SubSeq(arr, a + 1, b)

\* The characters \s matches (of those the inputs use).
Whitespace == {" ", "\t", "\n"}

RECURSIVE TrimStart(_)
TrimStart(s) ==
  IF s = "" THEN ""
  ELSE IF Head(s) \in Whitespace THEN TrimStart(Tail(s)) ELSE s

RECURSIVE TrimEnd(_)
TrimEnd(s) ==
  IF s = "" THEN ""
  ELSE IF SubSeq(s, Len(s), Len(s)) \in Whitespace THEN TrimEnd(DropLast(s)) ELSE s

\* s.trim()
Trim(s) == TrimEnd(TrimStart(s))

\* s.split(/\s+/): the maximal runs of non-whitespace, with an empty piece
\* before a leading and after a trailing run of whitespace.
RECURSIVE SplitWsFrom(_, _, _)
SplitWsFrom(s, cur, inGap) ==
  IF s = "" THEN <<cur>>
  ELSE IF Head(s) \in Whitespace
       THEN IF inGap THEN SplitWsFrom(Tail(s), cur, TRUE)
            ELSE <<cur>> \o SplitWsFrom(Tail(s), "", TRUE)
       ELSE SplitWsFrom(Tail(s), cur \o Head(s), FALSE)

SplitWs(s) == SplitWsFrom(s, "", FALSE)

\* n.toString() for a natural number.
Digits == "0123456789"

RECURSIVE NumToString(_)
NumToString(n) ==
  IF n < 10 THEN CharAt(Digits, n)
  ELSE NumToString(n \div 10) \o CharAt(Digits, n % 10)

\* s.padStart(n): spaces in front up to length n.
RECURSIVE PadStart(_, _)
PadStart(s, n) == IF Len(s) >= n THEN s ELSE PadStart(" " \o s, n)

\* The order of UTF-16 code units, for the characters the model uses
\* (printable ASCII without the backquote).
CodeOrder ==
  "\t\n !\"#$%&'()*+,-./0123456789:;<=>?@ABCDEFGHIJKLMNOPQRSTUVWXYZ[\\]^_abcdefghijklmnopqrstuvwxyz{|}~"

CharCode(c) == IndexOf(CodeOrder, c)

\* a < b as JavaScript compares strings.
RECURSIVE StrLess(_, _)
StrLess(a, b) ==
  IF b = "" THEN FALSE
  ELSE IF a = "" THEN TRUE
  ELSE IF Head(a) = Head(b) THEN StrLess(Tail(a), Tail(b))
       ELSE CharCode(Head(a)) < CharCode(Head(b))

\* arr.sort() of an array of strings (insertion sort; the result of the
\* default comparison is the same for every stable or unstable algorithm,
\* since equal strings are indistinguishable).
RECURSIVE InsertSorted(_, _)
InsertSorted(arr, x) ==
  IF Len(arr) = 0 THEN <<x>>
  ELSE IF StrLess(x, arr[1]) THEN <<x>> \o arr
       ELSE <<arr[1]>> \o InsertSorted(Tail(arr), x)

RECURSIVE Sort(_)
Sort(arr) ==
  IF Len(arr) = 0 THEN <<>>
  ELSE InsertSorted(Sort(DropLast(arr)), arr[Len(arr)])


(***************************************************************************)
(* MemStorage: the Map fileSystem, keyed by path.  A JavaScript Map keeps  *)
(* its entries in insertion order and set() on a present key keeps the     *)
(* entry's place; the Map is the sequence of its entries.                  *)
(***************************************************************************)
\* What Map.get returns for an absent key, as a FileSystemItem-shaped value.
NoItem ==
  [path |-> Undefined, name |-> Undefined, type |-> Undefined,
   content |-> Undefined, permissions |-> Undefined, size |-> Undefined]

MapHas(m, k) == \E i \in 1..Len(m) : m[i].key = k

MapGet(m, k) ==
  IF MapHas(m, k) THEN m[CHOOSE i \in 1..Len(m) : m[i].key = k].item ELSE NoItem

MapSet(m, k, v) ==
  IF MapHas(m, k)
  THEN [i \in 1..Len(m) |-> IF m[i].key = k THEN [key |-> k, item |-> v] ELSE m[i]]
  ELSE Append(m, [key |-> k, item |-> v])

MapDelete(m, k) == SelectSeq(m, LAMBDA e : e.key # k)

MapValues(m) == [i \in 1..Len(m) |-> m[i].item]

MapKeys(m) == {m[i].key : i \in 1..Len(m)}

Dir(path, name) ==
  [path |-> path, name |-> name, type |-> "directory", content |-> Null,
   permissions |-> "drwxr-xr-x", size |-> "4096"]

File(path, name, content, size) ==
  [path |-> path, name |-> name, type |-> "file", content |-> content,
   permissions |-> "-rw-r--r--", size |-> size]

\* initializeFileSystem without its last file.
initializeFileSystem_noLogout ==
  LET items == << Dir("/", "/"),
                  Dir("/home", "home"),
                  Dir("/home/user", "user"),
                  Dir("/home/user/Documents", "Documents"),
                  Dir("/home/user/Projects", "Projects"),
                  File("/home/user/.bashrc", ".bashrc", "# .bashrc", "3526"),
                  File("/home/user/.profile", ".profile", "# .profile", "807") >>
  IN  [i \in 1..Len(items) |-> [key |-> items[i].path, item |-> items[i]]]

\* The items initializeFileSystem() sets, in order.
initializeFileSystem ==
  LET items == << Dir("/", "/"),
                  Dir("/home", "home"),
                  Dir("/home/user", "user"),
                  Dir("/home/user/Documents", "Documents"),
                  Dir("/home/user/Projects", "Projects"),
                  File("/home/user/.bashrc", ".bashrc", "# .bashrc", "3526"),
                  File("/home/user/.profile", ".profile", "# .profile", "807"),
                  File("/home/user/.bash_logout", ".bash_logout", "# logout", "220") >>
  IN  [i \in 1..Len(items) |-> [key |-> items[i].path, item |-> items[i]]]

getFileSystemItem(fs, path) == MapGet(fs, path)

fileSystemItemExists(fs, path) == MapHas(fs, path)

getDirectoryContents(fs, path) ==
  LET normalizedPath == IF EndsWith(path, "/") /\ path # "/" THEN DropLast(path) ELSE path
      itemDir(item) == OrElse(Substring(item.path, 0, LastIndexOf(item.path, "/")), "/")
  IN  SelectSeq(MapValues(fs),
                LAMBDA item : itemDir(item) = normalizedPath /\ item.path # normalizedPath)

\* createFileSystemItem as an unconditional insertion (an array push).
createFileSystemItem_push(fs, item) == Append(fs, [key |-> item.path, item |-> item])

\* { permissions, size, content defaults, ...item }: every caller passes all six
\* fields of the item, so no default survives the spread.  The new store.
createFileSystemItem(fs, item) == MapSet(fs, item.path, item)

\* { ...item, ...updates }: the new store; unchanged when the path is absent.
updateFileSystemItem(fs, path, updates) ==
  LET item == MapGet(fs, path)
      updatedItem == [f \in DOMAIN item |->
                        IF f \in DOMAIN updates THEN updates[f] ELSE item[f]]
  IN  IF ~MapHas(fs, path) THEN fs ELSE MapSet(fs, path, updatedItem)

\* What deleteFileSystemItem returns: Map.delete's result.
deleteFileSystemItemResult(fs, path) == MapHas(fs, path)

\* deleteFileSystemItem refusing to delete a directory.
deleteFileSystemItem_filesOnly(fs, path) ==
  IF MapGet(fs, path).type = "directory" THEN fs ELSE MapDelete(fs, path)

\* deleteFileSystemItem removing the node and everything below it.
deleteFileSystemItem_recursive(fs, path) ==
  SelectSeq(fs, LAMBDA e : e.key # path /\ ~StartsWith(e.key, path \o "/"))

\* The store after deleteFileSystemItem.
deleteFileSystemItem(fs, path) == MapDelete(fs, path)


(***************************************************************************)
(* TerminalProcessor.  A handler is an operator of the store, the          *)
(* processor's currentDirectory and the arguments; its value is the store  *)
(* and currentDirectory it leaves and either the CommandResult it returns  *)
(* or the error it throws.  A result's absent `error` is Undefined.        *)
(***************************************************************************)
\* return { output, error, currentDirectory: this.currentDirectory, success }
Ret(fs, cwd, output, error, success) ==
  [fs |-> fs, cwd |-> cwd, thrown |-> FALSE, message |-> "",
   result |-> [output |-> output, error |-> error,
               currentDirectory |-> cwd, success |-> success]]

\* throw new TypeError(message) out of a handler
Throw(fs, cwd, message) ==
  [fs |-> fs, cwd |-> cwd, thrown |-> TRUE, message |-> message,
   result |-> [output |-> Undefined, error |-> Undefined,
               currentDirectory |-> Undefined, success |-> FALSE]]

\* resolvePath without its case for the root directory.
resolvePath_noRootCase(cwd, path) ==
  IF StartsWith(path, "/") THEN path
  ELSE IF path = "~" THEN "/home/user"
  ELSE IF StartsWith(path, "~/") THEN "/home/user" \o SubstringFrom(path, 1)
  ELSE cwd \o "/" \o path

resolvePath(cwd, path) ==
  IF StartsWith(path, "/") THEN path
  ELSE IF path = "~" THEN "/home/user"
  ELSE IF StartsWith(path, "~/") THEN "/home/user" \o SubstringFrom(path, 1)
  ELSE IF cwd = "/" THEN "/" \o path
  ELSE cwd \o "/" \o path

\* arg.split('/').pop() || arg
BaseName(arg) == OrElse(Pop(Split(arg, "/")), arg)

\* One line of `ls -l` per listed item.
RECURSIVE LongLines(_, _)
LongLines(contents, showAll) ==
  IF Len(contents) = 0 THEN ""
  ELSE LET item == contents[1]
           typeChar == IF item.type = "directory" THEN "d" ELSE "-"
           permissions == SubstringFrom(item.permissions, 1)
           size == PadStart(item.size, 8)
           line == IF ~showAll /\ StartsWith(item.name, ".") THEN ""
                   ELSE typeChar \o permissions \o " 1 user user " \o size
                        \o " Jan 15 14:30 " \o item.name \o "\n"
       IN  line \o LongLines(Tail(contents), showAll)

\* The short format of listDirectory without its sort(): the names in the
\* order the store returns them.
listDirectory_unsorted(fs, cwd, args) ==
  LET showAll == ArrIncludes(args, "-a") \/ ArrIncludes(args, "-la") \/ ArrIncludes(args, "-al")
      nonFlags == SelectSeq(args, LAMBDA arg : ~StartsWith(arg, "-"))
      targetPath == OrElse(At(nonFlags, 0), cwd)
      fullPath == resolvePath(cwd, targetPath)
      contents == getDirectoryContents(fs, fullPath)
      shown == SelectSeq(contents, LAMBDA item : showAll \/ ~StartsWith(item.name, "."))
  IN  IF ~fileSystemItemExists(fs, fullPath)
      THEN Ret(fs, cwd, "ls: cannot access '" \o targetPath \o "': No such file or directory",
               "No such file or directory", FALSE)
      ELSE Ret(fs, cwd, Join([i \in 1..Len(shown) |-> shown[i].name], "  "), Undefined, TRUE)

listDirectory(fs, cwd, args) ==
  LET showAll == ArrIncludes(args, "-a") \/ ArrIncludes(args, "-la") \/ ArrIncludes(args, "-al")
      longFormat == ArrIncludes(args, "-l") \/ ArrIncludes(args, "-la") \/ ArrIncludes(args, "-al")
      nonFlags == SelectSeq(args, LAMBDA arg : ~StartsWith(arg, "-"))
      targetPath == OrElse(At(nonFlags, 0), cwd)
      fullPath == resolvePath(cwd, targetPath)
      contents == getDirectoryContents(fs, fullPath)
      header == "total " \o NumToString(Max(Len(contents) * 4, 12)) \o "\n"
                \o (IF showAll
                    THEN "drwxr-xr-x 3 user user 4096 Jan 15 14:30 .\n"
                         \o (IF fullPath # "/"
                             THEN "drwxr-xr-x 3 root root 4096 Jan 15 14:20 ..\n" ELSE "")
                    ELSE "")
      shown == SelectSeq(contents, LAMBDA item : showAll \/ ~StartsWith(item.name, "."))
      fileNames == Sort([i \in 1..Len(shown) |-> shown[i].name])
  IN  IF ~fileSystemItemExists(fs, fullPath)
      THEN Ret(fs, cwd, "ls: cannot access '" \o targetPath \o "': No such file or directory",
               "No such file or directory", FALSE)
      ELSE IF longFormat
           THEN Ret(fs, cwd, Trim(header \o LongLines(contents, showAll)), Undefined, TRUE)
           ELSE Ret(fs, cwd, Join(fileNames, "  "), Undefined, TRUE)

\* changeDirectory without the check that the target is a directory.
changeDirectory_noTypeCheck(fs, cwd, path) ==
  LET fullPath == resolvePath(cwd, path)
  IN  IF ~fileSystemItemExists(fs, fullPath)
      THEN Ret(fs, cwd, "cd: no such file or directory: " \o path,
               "No such file or directory", FALSE)
      ELSE Ret(fs, fullPath, "", Undefined, TRUE)

\* changeDirectory building its result before it assigns currentDirectory.
changeDirectory_staleResult(fs, cwd, path) ==
  LET fullPath == resolvePath(cwd, path)
      item == getFileSystemItem(fs, fullPath)
  IN  IF ~fileSystemItemExists(fs, fullPath)
      THEN Ret(fs, cwd, "cd: no such file or directory: " \o path,
               "No such file or directory", FALSE)
      ELSE IF item.type # "directory"
           THEN Ret(fs, cwd, "cd: not a directory: " \o path, "Not a directory", FALSE)
           ELSE [Ret(fs, cwd, "", Undefined, TRUE) EXCEPT !.cwd = fullPath]

changeDirectory(fs, cwd, path) ==
  LET fullPath == resolvePath(cwd, path)
      item == getFileSystemItem(fs, fullPath)
  IN  IF ~fileSystemItemExists(fs, fullPath)
      THEN Ret(fs, cwd, "cd: no such file or directory: " \o path,
               "No such file or directory", FALSE)
      ELSE IF item.type # "directory"
           THEN Ret(fs, cwd, "cd: not a directory: " \o path, "Not a directory", FALSE)
           ELSE Ret(fs, fullPath, "", Undefined, TRUE)

\* The for loop of makeDirectory: the store and the messages after the
\* remaining arguments.
RECURSIVE makeDirectoryLoop(_, _, _, _)
makeDirectoryLoop(fs, cwd, args, results) ==
  IF Len(args) = 0 THEN [fs |-> fs, results |-> results]
  ELSE LET arg == args[1]
           fullPath == resolvePath(cwd, arg)
           parentPath == OrElse(Substring(fullPath, 0, LastIndexOf(fullPath, "/")), "/")
       IN  IF fileSystemItemExists(fs, fullPath)
           THEN makeDirectoryLoop(fs, cwd, Tail(args),
                  Append(results, "mkdir: cannot create directory '" \o arg \o "': File exists"))
           ELSE IF ~fileSystemItemExists(fs, parentPath) /\ parentPath # "/"
           THEN makeDirectoryLoop(fs, cwd, Tail(args),
                  Append(results, "mkdir: cannot create directory '" \o arg
                                  \o "': No such file or directory"))
           ELSE makeDirectoryLoop(
                  createFileSystemItem(fs,
                    [path |-> fullPath, name |-> BaseName(arg), type |-> "directory",
                     content |-> Null, permissions |-> "drwxr-xr-x", size |-> "4096"]),
                  cwd, Tail(args), results)

\* makeDirectory reporting success whatever the loop collected.
makeDirectory_alwaysSuccess(fs, cwd, args) ==
  LET done == makeDirectoryLoop(fs, cwd, args, <<>>)
  IN  IF Len(args) = 0
      THEN Ret(fs, cwd, "mkdir: missing operand", "Missing operand", FALSE)
      ELSE Ret(done.fs, cwd, Join(done.results, "\n"),
               IF Len(done.results) > 0 THEN done.results[1] ELSE Undefined,
               TRUE)

makeDirectory(fs, cwd, args) ==
  LET done == makeDirectoryLoop(fs, cwd, args, <<>>)
  IN  IF Len(args) = 0
      THEN Ret(fs, cwd, "mkdir: missing operand", "Missing operand", FALSE)
      ELSE Ret(done.fs, cwd, Join(done.results, "\n"),
               IF Len(done.results) > 0 THEN done.results[1] ELSE Undefined,
               Len(done.results) = 0)

\* The loop of createFile without its check for an existing path: touch
\* replaces what it finds by an empty file.
RECURSIVE createFileLoop_overwrite(_, _, _)
createFileLoop_overwrite(fs, cwd, args) ==
  IF Len(args) = 0 THEN fs
  ELSE createFileLoop_overwrite(
         createFileSystemItem(fs,
           [path |-> resolvePath(cwd, args[1]), name |-> BaseName(args[1]), type |-> "file",
            content |-> "", permissions |-> "-rw-r--r--", size |-> "0"]),
         cwd, Tail(args))

\* The for loop of createFile.
RECURSIVE createFileLoop(_, _, _)
createFileLoop(fs, cwd, args) ==
  IF Len(args) = 0 THEN fs
  ELSE LET arg == args[1]
           fullPath == resolvePath(cwd, arg)
       IN  IF fileSystemItemExists(fs, fullPath)
           THEN createFileLoop(fs, cwd, Tail(args))
           ELSE createFileLoop(
                  createFileSystemItem(fs,
                    [path |-> fullPath, name |-> BaseName(arg), type |-> "file",
                     content |-> "", permissions |-> "-rw-r--r--", size |-> "0"]),
                  cwd, Tail(args))

\* createFile without its operand check.
createFile_noOperandCheck(fs, cwd, args) ==
  Ret(createFileLoop(fs, cwd, args), cwd, "", Undefined, TRUE)

createFile(fs, cwd, args) ==
  IF Len(args) = 0
  THEN Ret(fs, cwd, "touch: missing file operand", "Missing file operand", FALSE)
  ELSE Ret(createFileLoop(fs, cwd, args), cwd, "", Undefined, TRUE)

\* readFile without its check for a directory.
readFile_noTypeCheck(fs, cwd, path) ==
  LET fullPath == resolvePath(cwd, path)
      item == getFileSystemItem(fs, fullPath)
  IN  IF path = Undefined \/ path = ""
      THEN Ret(fs, cwd, "cat: missing file operand", "Missing file operand", FALSE)
      ELSE IF item = NoItem
      THEN Ret(fs, cwd, "cat: " \o path \o ": No such file or directory",
               "No such file or directory", FALSE)
      ELSE Ret(fs, cwd, OrElse(item.content, ""), Undefined, TRUE)

readFile(fs, cwd, path) ==
  LET fullPath == resolvePath(cwd, path)
      item == getFileSystemItem(fs, fullPath)
  IN  IF path = Undefined \/ path = ""
      THEN Ret(fs, cwd, "cat: missing file operand", "Missing file operand", FALSE)
      ELSE IF item = NoItem
      THEN Ret(fs, cwd, "cat: " \o path \o ": No such file or directory",
               "No such file or directory", FALSE)
      ELSE IF item.type = "directory"
      THEN Ret(fs, cwd, "cat: " \o path \o ": Is a directory", "Is a directory", FALSE)
      ELSE Ret(fs, cwd, OrElse(item.content, ""), Undefined, TRUE)

\* echo writing the words as typed, double quotes included.
echo_keepQuotes(fs, cwd, args) ==
  LET redirectIndex == ArrIndexOf(args, ">")
      content == Join(Slice(args, 0, redirectIndex), " ")
      filename == At(args, redirectIndex + 1)
      fullPath == resolvePath(cwd, filename)
  IN  IF Len(args) = 0 THEN Ret(fs, cwd, "", Undefined, TRUE)
      ELSE IF redirectIndex # -1 /\ redirectIndex < Len(args) - 1
      THEN Ret(createFileSystemItem(fs,
                 [path |-> fullPath, name |-> BaseName(filename), type |-> "file",
                  content |-> content, permissions |-> "-rw-r--r--",
                  size |-> NumToString(Len(content))]),
               cwd, "", Undefined, TRUE)
      ELSE Ret(fs, cwd, RemoveAll(Join(args, " "), "\""), Undefined, TRUE)

echo(fs, cwd, args) ==
  LET redirectIndex == ArrIndexOf(args, ">")
      content == RemoveAll(Join(Slice(args, 0, redirectIndex), " "), "\"")
      filename == At(args, redirectIndex + 1)
      fullPath == resolvePath(cwd, filename)
  IN  IF Len(args) = 0 THEN Ret(fs, cwd, "", Undefined, TRUE)
      ELSE IF redirectIndex # -1 /\ redirectIndex < Len(args) - 1
      THEN Ret(createFileSystemItem(fs,
                 [path |-> fullPath, name |-> BaseName(filename), type |-> "file",
                  content |-> content, permissions |-> "-rw-r--r--",
                  size |-> NumToString(Len(content))]),
               cwd, "", Undefined, TRUE)
      ELSE Ret(fs, cwd, RemoveAll(Join(args, " "), "\""), Undefined, TRUE)

\* The for loop of removeFile.
RECURSIVE removeFileLoop(_, _, _, _)
removeFileLoop(fs, cwd, args, results) ==
  IF Len(args) = 0 THEN [fs |-> fs, results |-> results]
  ELSE LET arg == args[1]
           fullPath == resolvePath(cwd, arg)
           deleted == deleteFileSystemItemResult(fs, fullPath)
       IN  IF ~fileSystemItemExists(fs, fullPath)
           THEN removeFileLoop(fs, cwd, Tail(args),
                  Append(results, "rm: cannot remove '" \o arg \o "': No such file or directory"))
           ELSE removeFileLoop(deleteFileSystemItem(fs, fullPath), cwd, Tail(args),
                  IF ~deleted
                  THEN Append(results, "rm: cannot remove '" \o arg \o "': Operation failed")
                  ELSE results)

\* removeFile reporting each present path as removed and deleting nothing.
removeFile_noDelete(fs, cwd, args) ==
  LET done == removeFileLoop(fs, cwd, args, <<>>)
  IN  IF Len(args) = 0
      THEN Ret(fs, cwd, "rm: missing operand", "Missing operand", FALSE)
      ELSE Ret(fs, cwd, Join(done.results, "\n"),
               IF Len(done.results) > 0 THEN done.results[1] ELSE Undefined,
               Len(done.results) = 0)

\* removeFile as all-or-nothing: a failing path undoes the removals.
removeFile_rollback(fs, cwd, args) ==
  LET done == removeFileLoop(fs, cwd, args, <<>>)
  IN  IF Len(args) = 0
      THEN Ret(fs, cwd, "rm: missing operand", "Missing operand", FALSE)
      ELSE Ret(IF Len(done.results) = 0 THEN done.fs ELSE fs, cwd,
               Join(done.results, "\n"),
               IF Len(done.results) > 0 THEN done.results[1] ELSE Undefined,
               Len(done.results) = 0)

removeFile(fs, cwd, args) ==
  LET done == removeFileLoop(fs, cwd, args, <<>>)
  IN  IF Len(args) = 0
      THEN Ret(fs, cwd, "rm: missing operand", "Missing operand", FALSE)
      ELSE Ret(done.fs, cwd, Join(done.results, "\n"),
               IF Len(done.results) > 0 THEN done.results[1] ELSE Undefined,
               Len(done.results) = 0)

showHelp(fs, cwd) ==
  Ret(fs, cwd, "Available Commands:\n\nFile System:\nls          - List directory contents\n...",
      Undefined, TRUE)


executeCurl(fs, cwd, args) ==
  LET url == args[1]
  IN  IF Len(args) = 0 THEN Ret(fs, cwd, "curl: missing URL", "Missing URL", FALSE)
      ELSE IF ~StartsWith(url, "http")
      THEN Ret(fs, cwd, "curl: (1) Protocol \"" \o Split(url, ":")[1]
                        \o "\" not supported or disabled in libcurl",
               "Invalid URL protocol", FALSE)
      ELSE Ret(fs, cwd,
               "HTTP/1.1 200 OK\nContent-Type: application/json\nContent-Length: 85\n\n{\n  \"message\": \"Success\",\n  \"url\": \""
               \o url \o "\",\n  \"method\": \"GET\",\n  \"timestamp\": \"<date>\"\n}",
               Undefined, TRUE)

executeWget(fs, cwd, args) ==
  LET url == args[1]
      filename == OrElse(Pop(Split(url, "/")), "index.html")
      host == Str(At(Split(url, "/"), 2))
      output == "--<date> <time>--  " \o url \o "\nResolving " \o host
                \o "... 192.168.1.1\nConnecting to " \o host
                \o "|192.168.1.1|:80... connected.\nHTTP request sent, awaiting response... 200 OK\nLength: 2048 (2.0K) [text/html]\nSaving to: '"
                \o filename \o "'\n\n" \o filename
                \o "          100%[===================>]   2.00K  --.-KB/s    in 0s      \n\n<date> <time> (10.2 MB/s) - '"
                \o filename \o "' saved [2048/2048]"
  IN  IF Len(args) = 0 THEN Ret(fs, cwd, "wget: missing URL", "Missing URL", FALSE)
      ELSE Ret(createFileSystemItem(fs,
                 [path |-> resolvePath(cwd, filename), name |-> filename, type |-> "file",
                  content |-> "<!DOCTYPE html>\n<html>\n<head><title>Downloaded content</title></head>\n<body><h1>Sample content from "
                              \o url \o "</h1></body>\n</html>",
                  permissions |-> "-rw-r--r--", size |-> "2048"]),
               cwd, output, Undefined, TRUE)

\* The files `git clone` puts into the repository directory, in order.
gitFiles(repoName, repoUrl) ==
  << [name |-> "README.md", content |-> "# " \o repoName \o "\n\nCloned from " \o repoUrl],
     [name |-> ".gitignore", content |-> "node_modules/\n*.log\n.env"],
     [name |-> "package.json",
      content |-> "{\n  \"name\": \"" \o repoName
                  \o "\",\n  \"version\": \"1.0.0\",\n  \"description\": \"Cloned repository\"\n}"] >>

RECURSIVE gitCloneLoop(_, _, _)
gitCloneLoop(fs, repoPath, files) ==
  IF Len(files) = 0 THEN fs
  ELSE LET file == files[1]
       IN  gitCloneLoop(
             createFileSystemItem(fs,
               [path |-> repoPath \o "/" \o file.name, name |-> file.name, type |-> "file",
                content |-> file.content, permissions |-> "-rw-r--r--",
                size |-> NumToString(Len(file.content))]),
             repoPath, Tail(files))

executeGit(fs, cwd, args) ==
  LET subcommand == args[1]
      subargs == Tail(args)
      repoUrl == subargs[1]
      repoName == OrElse(Replace(Pop(Split(repoUrl, "/")), ".git", ""), "repository")
      repoPath == resolvePath(cwd, repoName)
      cloneOutput == "Cloning into '" \o repoName
                     \o "'...\nremote: Enumerating objects: 156, done.\n...\nResolving deltas: 100% (45/45), done."
      withRepo == createFileSystemItem(fs,
                    [path |-> repoPath, name |-> repoName, type |-> "directory",
                     content |-> Null, permissions |-> "drwxr-xr-x", size |-> "4096"])
  IN  IF Len(args) = 0
      THEN Ret(fs, cwd, "usage: git [--version] [--help] [-C <path>] [-c <name>=<value>]\n...",
               Undefined, TRUE)
      ELSE IF subcommand = "clone"
      THEN IF Len(subargs) = 0
           THEN Ret(fs, cwd, "fatal: You must specify a repository to clone.",
                    "Missing repository URL", FALSE)
           ELSE Ret(gitCloneLoop(withRepo, repoPath, gitFiles(repoName, repoUrl)),
                    cwd, cloneOutput, Undefined, TRUE)
      ELSE IF subcommand = "status"
      THEN Ret(fs, cwd, "On branch main\nYour branch is up to date with 'origin/main'.\n\nnothing to commit, working tree clean",
               Undefined, TRUE)
      ELSE IF subcommand = "init"
      THEN Ret(fs, cwd, "Initialized empty Git repository in " \o cwd \o "/.git/", Undefined, TRUE)
      ELSE IF subcommand = "add" THEN Ret(fs, cwd, "", Undefined, TRUE)
      ELSE IF subcommand = "commit"
      THEN Ret(fs, cwd, "[main 1a2b3c4] Sample commit\n 1 file changed, 1 insertion(+)",
               Undefined, TRUE)
      ELSE IF subcommand = "push" THEN Ret(fs, cwd, "Everything up-to-date", Undefined, TRUE)
      ELSE IF subcommand = "pull" THEN Ret(fs, cwd, "Already up to date.", Undefined, TRUE)
      ELSE Ret(fs, cwd, "git: '" \o subcommand \o "' is not a git command. See 'git --help'.",
               "Unknown git command", FALSE)

executePython(fs, cwd, args) ==
  LET filename == args[1]
      file == getFileSystemItem(fs, resolvePath(cwd, filename))
  IN  IF Len(args) = 0
      THEN Ret(fs, cwd, "Python 3.11.0 (main, Oct 24 2022, 18:26:48) [GCC 9.4.0] on linux\n...\n>>> exit()",
               Undefined, TRUE)
      ELSE IF file = NoItem
      THEN Ret(fs, cwd, "python: can't open file '" \o filename
                        \o "': [Errno 2] No such file or directory",
               "File not found", FALSE)
      ELSE IF file.type # "file" \/ ~EndsWith(filename, ".py")
      THEN Ret(fs, cwd, "python: can't open file '" \o filename \o "': [Errno 21] Is a directory",
               "Invalid file", FALSE)
      ELSE Ret(fs, cwd, "Running Python script: " \o filename
                        \o "\nHello from Python!\nScript execution completed successfully.",
               Undefined, TRUE)

executeNode(fs, cwd, args) ==
  LET filename == args[1]
      file == getFileSystemItem(fs, resolvePath(cwd, filename))
  IN  IF Len(args) = 0
      THEN Ret(fs, cwd, "Welcome to Node.js v18.17.0.\nType \".help\" for more information.\n> .exit",
               Undefined, TRUE)
      ELSE IF file = NoItem
      THEN Ret(fs, cwd, "node: can't open file '" \o filename \o "'", "File not found", FALSE)
      ELSE Ret(fs, cwd, "Running Node.js script: " \o filename
                        \o "\nHello from Node.js!\nScript execution completed successfully.",
               Undefined, TRUE)

executeJava(fs, cwd, args) ==
  IF Len(args) = 0
  THEN Ret(fs, cwd, "Usage: java [options] <mainclass> [args...]\n...", Undefined, TRUE)
  ELSE Ret(fs, cwd, "Running Java class: " \o args[1]
                    \o "\nHello from Java!\nProgram execution completed successfully.",
           Undefined, TRUE)

\* executeJavac writing the class file before it looks at the file's suffix.
executeJavac_writeFirst(fs, cwd, args) ==
  LET filename == args[1]
      file == getFileSystemItem(fs, resolvePath(cwd, filename))
      classFile == Replace(filename, ".java", ".class")
      written == createFileSystemItem(fs,
                   [path |-> resolvePath(cwd, classFile), name |-> classFile, type |-> "file",
                    content |-> "Compiled Java bytecode (binary)",
                    permissions |-> "-rw-r--r--", size |-> "1024"])
  IN  IF Len(args) = 0
      THEN Ret(fs, cwd, "Usage: javac <options> <source files>", Undefined, TRUE)
      ELSE IF file = NoItem
      THEN Ret(fs, cwd, "javac: file not found: " \o filename, "File not found", FALSE)
      ELSE IF ~EndsWith(filename, ".java")
      THEN Ret(written, cwd, "javac: file not found: " \o filename, "File not found", FALSE)
      ELSE Ret(written, cwd, "Compiled " \o filename \o " successfully.", Undefined, TRUE)

executeJavac(fs, cwd, args) ==
  LET filename == args[1]
      file == getFileSystemItem(fs, resolvePath(cwd, filename))
      classFile == Replace(filename, ".java", ".class")
  IN  IF Len(args) = 0
      THEN Ret(fs, cwd, "Usage: javac <options> <source files>", Undefined, TRUE)
      ELSE IF file = NoItem \/ ~EndsWith(filename, ".java")
      THEN Ret(fs, cwd, "javac: file not found: " \o filename, "File not found", FALSE)
      ELSE Ret(createFileSystemItem(fs,
                 [path |-> resolvePath(cwd, classFile), name |-> classFile, type |-> "file",
                  content |-> "Compiled Java bytecode (binary)",
                  permissions |-> "-rw-r--r--", size |-> "1024"]),
               cwd, "Compiled " \o filename \o " successfully.", Undefined, TRUE)

\* resolvePath(undefined) reads a property of undefined.
TypeErrorStartsWith == "Cannot read properties of undefined (reading 'startsWith')"

executeGcc(fs, cwd, compiler, args) ==
  LET sourceFile == args[1]
      outputFile == IF ArrIncludes(args, "-o") THEN At(args, ArrIndexOf(args, "-o") + 1)
                    ELSE "a.out"
      file == getFileSystemItem(fs, resolvePath(cwd, sourceFile))
  IN  IF Len(args) = 0
      THEN Ret(fs, cwd, compiler \o ": fatal error: no input files\ncompilation terminated.",
               "No input files", FALSE)
      ELSE IF file = NoItem
      THEN Ret(fs, cwd, compiler \o ": error: " \o sourceFile \o ": No such file or directory",
               "File not found", FALSE)
      ELSE IF outputFile = Undefined
      THEN Throw(fs, cwd, TypeErrorStartsWith)
      ELSE Ret(createFileSystemItem(fs,
                 [path |-> resolvePath(cwd, outputFile), name |-> outputFile, type |-> "file",
                  content |-> "Compiled executable (binary)",
                  permissions |-> "-rwxr-xr-x", size |-> "8192"]),
               cwd, "Compiled " \o sourceFile \o " to " \o outputFile \o " successfully.",
               Undefined, TRUE)


executeMake(fs, cwd, args) ==
  Ret(fs, cwd, "make: Entering directory '" \o cwd \o "'\ngcc -o main main.c\nmake: Leaving directory '"
               \o cwd \o "'",
      Undefined, TRUE)

executeNpm(fs, cwd, args) ==
  LET command == args[1]
  IN  IF Len(args) = 0
      THEN Ret(fs, cwd, "npm <command>\n\nUsage:\n...", Undefined, TRUE)
      ELSE IF command = "install"
      THEN Ret(fs, cwd, "npm WARN saveError ENOENT: no such file or directory, open 'package.json'\n...\nfound 0 vulnerabilities",
               Undefined, TRUE)
      ELSE IF command = "init"
      THEN Ret(fs, cwd, "This utility will walk you through creating a package.json file.\npackage.json created successfully!",
               Undefined, TRUE)
      ELSE IF command = "start"
      THEN Ret(fs, cwd, "npm ERR! missing script: start", "Missing script", FALSE)
      ELSE Ret(fs, cwd, "Unknown command: " \o command, "Unknown command", FALSE)

executePip(fs, cwd, args) ==
  LET command == args[1]
      package_name == OrElse(At(args, 1), "package")
  IN  IF Len(args) = 0
      THEN Ret(fs, cwd, "\nUsage:   \n  pip <command> [options]\n...", Undefined, TRUE)
      ELSE IF command = "install"
      THEN Ret(fs, cwd, "Collecting " \o package_name \o "\n  Downloading " \o package_name
                        \o "-1.0.0-py3-none-any.whl (50 kB)\nInstalling collected packages: "
                        \o package_name \o "\nSuccessfully installed " \o package_name \o "-1.0.0",
               Undefined, TRUE)
      ELSE IF command = "list"
      THEN Ret(fs, cwd, "Package    Version\n---------- -------\npip        23.0.1\nsetuptools 65.5.0\nwheel      0.38.4",
               Undefined, TRUE)
      ELSE Ret(fs, cwd, "Unknown command: " \o command, "Unknown command", FALSE)

showSystemResources(fs, cwd) ==
  Ret(fs, cwd, "top - <time> up <uptime>, 1 user, load average: <random>\n...", Undefined, TRUE)

showProcesses(fs, cwd) ==
  Ret(fs, cwd, "  PID TTY          TIME CMD\n 1234 pts/0    00:00:01 bash\n 5678 pts/0    00:00:00 webtermux\n 9012 pts/0    00:00:00 ps\n...",
      Undefined, TRUE)

showDiskUsage(fs, cwd) ==
  Ret(fs, cwd, "Filesystem     1K-blocks     Used Available Use% Mounted on\n/dev/sda1      104857600 26214400 78643200  25% /\n...",
      Undefined, TRUE)

showMemoryUsage(fs, cwd) ==
  Ret(fs, cwd, "              total        used        free      shared  buff/cache   available\nMem:          <memory>\nSwap:         2048           0        2048",
      Undefined, TRUE)

showSystemInfo(fs, cwd, args) ==
  IF ArrIncludes(args, "-a")
  THEN Ret(fs, cwd, "Linux webtermux 5.15.0-generic #72-Ubuntu SMP Fri Jan 20 10:24:01 UTC 2023 x86_64 x86_64 x86_64 GNU/Linux",
           Undefined, TRUE)
  ELSE Ret(fs, cwd, "Linux", Undefined, TRUE)

openEditor(fs, cwd, editor, args) ==
  LET filename == OrElse(At(args, 0), "newfile.txt")
  IN  Ret(fs, cwd, "Opening " \o filename \o " with " \o editor \o "...\n" \o editor
                   \o ": Editor simulation - file opened successfully.\nUse Ctrl+X to exit (nano) or :q to quit (vim).",
          Undefined, TRUE)

\* undefined.replace(...) inside the filter callback of findFiles.
TypeErrorReplace == "Cannot read properties of undefined (reading 'replace')"

findFiles(fs, cwd, args) ==
  LET searchPath == OrElse(At(args, 0), cwd)
      searchName == IF ArrIncludes(args, "-name") THEN At(args, ArrIndexOf(args, "-name") + 1)
                    ELSE "*"
      contents == getDirectoryContents(fs, searchPath)
      results == SelectSeq(contents,
                   LAMBDA item : searchName = "*"
                                 \/ Includes(item.name, Replace(searchName, "*", "")))
  IN  IF searchName = Undefined /\ Len(contents) > 0
      THEN Throw(fs, cwd, TypeErrorReplace)
      ELSE Ret(fs, cwd, Join([i \in 1..Len(results) |-> results[i].path], "\n"),
               Undefined, TRUE)

\* lines.filter(line => line.includes(pattern))
grepMatches(content, pattern) ==
  SelectSeq(Split(content, "\n"), LAMBDA line : Includes(line, pattern))

grepCommand(fs, cwd, args) ==
  LET pattern == args[1]
      filename == args[2]
      file == getFileSystemItem(fs, resolvePath(cwd, filename))
  IN  IF Len(args) < 2
      THEN Ret(fs, cwd, "grep: missing pattern or file", "Missing arguments", FALSE)
      ELSE IF file = NoItem
      THEN Ret(fs, cwd, "grep: " \o filename \o ": No such file or directory",
               "File not found", FALSE)
      ELSE IF file.type = "directory"
      THEN Ret(fs, cwd, "grep: " \o filename \o ": Is a directory", "Is a directory", FALSE)
      ELSE Ret(fs, cwd, Join(grepMatches(OrElse(file.content, ""), pattern), "\n"),
               Undefined, TRUE)

\* executeTar storing the archive it reports as created.
executeTar_storesArchive(fs, cwd, args) ==
  LET option == args[1]
      archiveName == OrElse(At(args, ArrIndexOf(args, "-f") + 1), "archive.tar")
  IN  IF Len(args) = 0
      THEN Ret(fs, cwd, "tar: You must specify one of the '-Acdtrux', '--delete' or '--test-label' options",
               "Missing options", FALSE)
      ELSE IF Includes(option, "c")
      THEN Ret(createFileSystemItem(fs,
                 [path |-> resolvePath(cwd, archiveName), name |-> BaseName(archiveName),
                  type |-> "file", content |-> "", permissions |-> "-rw-r--r--",
                  size |-> "0"]),
               cwd, "Created archive: " \o archiveName, Undefined, TRUE)
      ELSE IF Includes(option, "x")
      THEN Ret(fs, cwd, "Extracted archive: " \o archiveName, Undefined, TRUE)
      ELSE Ret(fs, cwd, "tar: operation completed", Undefined, TRUE)

executeTar(fs, cwd, args) ==
  LET option == args[1]
      archiveName == OrElse(At(args, ArrIndexOf(args, "-f") + 1), "archive.tar")
  IN  IF Len(args) = 0
      THEN Ret(fs, cwd, "tar: You must specify one of the '-Acdtrux', '--delete' or '--test-label' options",
               "Missing options", FALSE)
      ELSE IF Includes(option, "c")
      THEN Ret(fs, cwd, "Created archive: " \o archiveName, Undefined, TRUE)
      ELSE IF Includes(option, "x")
      THEN Ret(fs, cwd, "Extracted archive: " \o archiveName, Undefined, TRUE)
      ELSE Ret(fs, cwd, "tar: operation completed", Undefined, TRUE)

executeZip(fs, cwd, command, args) ==
  LET zipName == OrElse(At(args, 0), "archive.zip")
  IN  IF command = "zip"
      THEN Ret(fs, cwd, "  adding: files (deflated 50%)\nArchive " \o zipName
                        \o " created successfully.",
               Undefined, TRUE)
      ELSE Ret(fs, cwd, "Archive:  " \o zipName
                        \o "\n  inflating: file1.txt\n  inflating: file2.txt\nExtraction completed.",
               Undefined, TRUE)

\* copyFile leaving permissions and size to createFileSystemItem's defaults.
copyFile_defaultAttributes(fs, cwd, args) ==
  LET source == resolvePath(cwd, args[1])
      dest == resolvePath(cwd, args[2])
      sourceFile == getFileSystemItem(fs, source)
  IN  IF Len(args) < 2
      THEN Ret(fs, cwd, "cp: missing destination file operand after source",
               "Missing destination", FALSE)
      ELSE IF sourceFile = NoItem
      THEN Ret(fs, cwd, "cp: cannot stat '" \o args[1] \o "': No such file or directory",
               "File not found", FALSE)
      ELSE Ret(createFileSystemItem(fs,
                 [path |-> dest, name |-> BaseName(args[2]), type |-> sourceFile.type,
                  content |-> sourceFile.content, permissions |-> "-rw-r--r--",
                  size |-> "0"]),
               cwd, "", Undefined, TRUE)

\* copyFile always making a file of the copy, whatever the source is.
copyFile_asFile(fs, cwd, args) ==
  LET source == resolvePath(cwd, args[1])
      dest == resolvePath(cwd, args[2])
      sourceFile == getFileSystemItem(fs, source)
  IN  IF Len(args) < 2
      THEN Ret(fs, cwd, "cp: missing destination file operand after source",
               "Missing destination", FALSE)
      ELSE IF sourceFile = NoItem
      THEN Ret(fs, cwd, "cp: cannot stat '" \o args[1] \o "': No such file or directory",
               "File not found", FALSE)
      ELSE Ret(createFileSystemItem(fs,
                 [path |-> dest, name |-> BaseName(args[2]), type |-> "file",
                  content |-> sourceFile.content, permissions |-> sourceFile.permissions,
                  size |-> sourceFile.size]),
               cwd, "", Undefined, TRUE)

\* copyFile removing the source after the copy, as moveFile does.
copyFile_removeSource(fs, cwd, args) ==
  LET source == resolvePath(cwd, args[1])
      dest == resolvePath(cwd, args[2])
      sourceFile == getFileSystemItem(fs, source)
  IN  IF Len(args) < 2
      THEN Ret(fs, cwd, "cp: missing destination file operand after source",
               "Missing destination", FALSE)
      ELSE IF sourceFile = NoItem
      THEN Ret(fs, cwd, "cp: cannot stat '" \o args[1] \o "': No such file or directory",
               "File not found", FALSE)
      ELSE Ret(deleteFileSystemItem(
                 createFileSystemItem(fs,
                   [path |-> dest, name |-> BaseName(args[2]), type |-> sourceFile.type,
                    content |-> sourceFile.content, permissions |-> sourceFile.permissions,
                    size |-> sourceFile.size]),
                 source),
               cwd, "", Undefined, TRUE)

copyFile(fs, cwd, args) ==
  LET source == resolvePath(cwd, args[1])
      dest == resolvePath(cwd, args[2])
      sourceFile == getFileSystemItem(fs, source)
  IN  IF Len(args) < 2
      THEN Ret(fs, cwd, "cp: missing destination file operand after source",
               "Missing destination", FALSE)
      ELSE IF sourceFile = NoItem
      THEN Ret(fs, cwd, "cp: cannot stat '" \o args[1] \o "': No such file or directory",
               "File not found", FALSE)
      ELSE Ret(createFileSystemItem(fs,
                 [path |-> dest, name |-> BaseName(args[2]), type |-> sourceFile.type,
                  content |-> sourceFile.content, permissions |-> sourceFile.permissions,
                  size |-> sourceFile.size]),
               cwd, "", Undefined, TRUE)

moveFile(fs, cwd, args) ==
  LET source == resolvePath(cwd, args[1])
      dest == resolvePath(cwd, args[2])
      sourceFile == getFileSystemItem(fs, source)
      created == createFileSystemItem(fs,
                   [path |-> dest, name |-> BaseName(args[2]), type |-> sourceFile.type,
                    content |-> sourceFile.content, permissions |-> sourceFile.permissions,
                    size |-> sourceFile.size])
  IN  IF Len(args) < 2
      THEN Ret(fs, cwd, "mv: missing destination file operand after source",
               "Missing destination", FALSE)
      ELSE IF sourceFile = NoItem
      THEN Ret(fs, cwd, "mv: cannot stat '" \o args[1] \o "': No such file or directory",
               "File not found", FALSE)
      ELSE Ret(deleteFileSystemItem(created, source), cwd, "", Undefined, TRUE)

\* changePermissions writing a new item that carries only the permissions.
changePermissions_recreate(fs, cwd, args) ==
  LET permissions == args[1]
      filename == args[2]
      filepath == resolvePath(cwd, filename)
      file == getFileSystemItem(fs, filepath)
  IN  IF Len(args) < 2
      THEN Ret(fs, cwd, "chmod: missing operand", "Missing operand", FALSE)
      ELSE IF file = NoItem
      THEN Ret(fs, cwd, "chmod: cannot access '" \o filename \o "': No such file or directory",
               "File not found", FALSE)
      ELSE Ret(updateFileSystemItem(fs, filepath,
                 [permissions |-> "-" \o permissions, content |-> Null, size |-> "0"]),
               cwd, "", Undefined, TRUE)

changePermissions(fs, cwd, args) ==
  LET permissions == args[1]
      filename == args[2]
      filepath == resolvePath(cwd, filename)
      file == getFileSystemItem(fs, filepath)
  IN  IF Len(args) < 2
      THEN Ret(fs, cwd, "chmod: missing operand", "Missing operand", FALSE)
      ELSE IF file = NoItem
      THEN Ret(fs, cwd, "chmod: cannot access '" \o filename \o "': No such file or directory",
               "File not found", FALSE)
      ELSE Ret(updateFileSystemItem(fs, filepath, [permissions |-> "-" \o permissions]),
               cwd, "", Undefined, TRUE)

executeSSH(fs, cwd, args) ==
  IF Len(args) = 0
  THEN Ret(fs, cwd, "usage: ssh [-46AaCfGgKkMNnqsTtVvXxYy] [-B bind_interface]\n           [-b bind_address] [-c cipher_spec] [-D [bind_address:]port]",
           Undefined, TRUE)
  ELSE Ret(fs, cwd, "ssh: connect to host " \o args[1] \o " port 22: Connection refused",
           "Connection refused", FALSE)

executeSCP(fs, cwd, args) ==
  IF Len(args) < 2
  THEN Ret(fs, cwd, "usage: scp [-346BCpqrTv] [-c cipher] [-F ssh_config] [-i identity_file]",
           Undefined, TRUE)
  ELSE Ret(fs, cwd, "scp: connect to host " \o Split(args[2], ":")[1]
                    \o " port 22: Connection refused",
           "Connection refused", FALSE)

executeRsync(fs, cwd, args) ==
  IF Len(args) < 2
  THEN Ret(fs, cwd, "rsync: no destination specified", "Missing destination", FALSE)
  ELSE Ret(fs, cwd, "sending incremental file list\n" \o args[1]
                    \o "\n\nsent 1,234 bytes  received 56 bytes  258.00 bytes/sec\ntotal size is 1,234  speedup is 0.96",
           Undefined, TRUE)


\* The default case with the two texts exchanged.
commandNotFound_swapped(fs, cwd, cmd) ==
  Ret(fs, cwd, cmd \o ": command not found", "Command not found: " \o cmd, FALSE)

\* The default case of the switch.
commandNotFound(fs, cwd, cmd) ==
  Ret(fs, cwd, "Command not found: " \o cmd, cmd \o ": command not found", FALSE)

\* The switch of executeCommand.
dispatch(fs, cwd, cmd, args) ==
  CASE cmd = "pwd" -> Ret(fs, cwd, cwd, Undefined, TRUE)
    [] cmd = "ls" -> listDirectory(fs, cwd, args)
    [] cmd = "cd" -> changeDirectory(fs, cwd, OrElse(At(args, 0), "/home/user"))
    [] cmd = "mkdir" -> makeDirectory(fs, cwd, args)
    [] cmd = "touch" -> createFile(fs, cwd, args)
    [] cmd = "cat" -> readFile(fs, cwd, At(args, 0))
    [] cmd = "echo" -> echo(fs, cwd, args)
    [] cmd = "rm" -> removeFile(fs, cwd, args)
    [] cmd = "clear" -> Ret(fs, cwd, "<ESC>[2J<ESC>[H", Undefined, TRUE)
    [] cmd = "help" -> showHelp(fs, cwd)
    [] cmd = "curl" -> executeCurl(fs, cwd, args)
    [] cmd = "wget" -> executeWget(fs, cwd, args)
    [] cmd = "git" -> executeGit(fs, cwd, args)
    [] cmd \in {"python", "python3"} -> executePython(fs, cwd, args)
    [] cmd \in {"node", "nodejs"} -> executeNode(fs, cwd, args)
    [] cmd = "java" -> executeJava(fs, cwd, args)
    [] cmd = "javac" -> executeJavac(fs, cwd, args)
    [] cmd \in {"gcc", "g++"} -> executeGcc(fs, cwd, cmd, args)
    [] cmd = "make" -> executeMake(fs, cwd, args)
    [] cmd = "npm" -> executeNpm(fs, cwd, args)
    [] cmd \in {"pip", "pip3"} -> executePip(fs, cwd, args)
    [] cmd \in {"top", "htop"} -> showSystemResources(fs, cwd)
    [] cmd = "ps" -> showProcesses(fs, cwd)
    [] cmd = "df" -> showDiskUsage(fs, cwd)
    [] cmd = "free" -> showMemoryUsage(fs, cwd)
    [] cmd = "uname" -> showSystemInfo(fs, cwd, args)
    [] cmd = "whoami" -> Ret(fs, cwd, "user", Undefined, TRUE)
    [] cmd \in {"nano", "vim", "vi"} -> openEditor(fs, cwd, cmd, args)
    [] cmd = "find" -> findFiles(fs, cwd, args)
    [] cmd = "grep" -> grepCommand(fs, cwd, args)
    [] cmd = "tar" -> executeTar(fs, cwd, args)
    [] cmd \in {"zip", "unzip"} -> executeZip(fs, cwd, cmd, args)
    [] cmd = "cp" -> copyFile(fs, cwd, args)
    [] cmd = "mv" -> moveFile(fs, cwd, args)
    [] cmd = "chmod" -> changePermissions(fs, cwd, args)
    [] cmd = "ssh" -> executeSSH(fs, cwd, args)
    [] cmd = "scp" -> executeSCP(fs, cwd, args)
    [] cmd = "rsync" -> executeRsync(fs, cwd, args)
    [] OTHER -> commandNotFound(fs, cwd, cmd)

\* executeCommand without its try/catch: the error leaves the method.
catchError_rethrow(out) == out

\* catch (error) { return { output, error: error.message, currentDirectory, success: false } }
\* A TypeError is an Error and prints as "TypeError: <message>".
catchError(out) ==
  IF out.thrown
  THEN [out EXCEPT !.thrown = FALSE,
                   !.result = [output |-> "Error executing command: TypeError: " \o out.message,
                               error |-> out.message,
                               currentDirectory |-> out.cwd,
                               success |-> FALSE]]
  ELSE out

\* executeCommand recording only the commands that succeeded.
executeCommand_historyOnSuccess(fs, cwd, history, command) ==
  LET trimmedCommand == Trim(command)
      parts == SplitWs(trimmedCommand)
      out == catchError(dispatch(fs, cwd, parts[1], Tail(parts)))
  IN  IF trimmedCommand = ""
      THEN [fs |-> fs, cwd |-> cwd, history |-> history, thrown |-> FALSE,
            result |-> [output |-> "", error |-> Undefined,
                        currentDirectory |-> cwd, success |-> TRUE]]
      ELSE [fs |-> out.fs, cwd |-> out.cwd,
            history |-> IF out.result.success THEN Append(history, trimmedCommand)
                        ELSE history,
            thrown |-> out.thrown, result |-> out.result]

\* executeCommand(command) of a processor whose fields are cwd and history:
\* the store and the fields afterwards, the CommandResult returned, and
\* whether an error left the method instead (thrown).
executeCommand(fs, cwd, history, command) ==
  LET trimmedCommand == Trim(command)
      parts == SplitWs(trimmedCommand)
      cmd == parts[1]
      args == Tail(parts)
      out == catchError(dispatch(fs, cwd, cmd, args))
  IN  IF trimmedCommand = ""
      THEN [fs |-> fs, cwd |-> cwd, history |-> history, thrown |-> FALSE,
            result |-> [output |-> "", error |-> Undefined,
                        currentDirectory |-> cwd, success |-> TRUE]]
      ELSE [fs |-> out.fs, cwd |-> out.cwd, history |-> Append(history, trimmedCommand),
            thrown |-> out.thrown, result |-> out.result]


(***************************************************************************)
(* The command lines the connections send.  The store starts with          *)
(* /home/user/.bashrc, Documents and Projects, so most cases of a handler  *)
(* are met by the first command; the others by the second.                 *)
(***************************************************************************)
NavigationInputs ==
  { "pwd", "ls", "ls -a", "ls -la", "ls -l /home", "ls /home", "ls nope",
    "cd", "cd /", "cd proj", "cd Documents", "cd .bashrc", "cd ..",
    "  ls  ", " ", "\t \n" }

FileInputs ==
  { "mkdir", "mkdir proj", "mkdir proj a/b", "mkdir Documents /x",
    "touch", "touch a.txt", "touch A.java main.c", "touch nodir/b.txt", "touch .bashrc",
    "cat", "cat .bashrc", "cat a.txt", "cat Documents",
    "echo", "echo hi  there", "echo \"hi\" > out.txt", "echo x > /home/user", "echo hi >", "echo hi >f",
    "rm", "rm a.txt", "rm /", "rm /home/user", "rm .bashrc nope", "rm nope .bashrc", "rm proj", "rm /home",
    "cp", "cp .bashrc", "cp .bashrc b", "cp nope b", "cp .bashrc /home/user", "cp .bashrc .bashrc", "cp Documents Projects/d",
    "mv", "mv .bashrc", "mv .bashrc b", "mv nope b", "mv .bashrc .bashrc", "mv / x", "mv Documents /home/user",
    "chmod", "chmod 755", "chmod 755 .bashrc", "chmod 755 nope",
    "find", "find -name bash", "find /home/user -name", "find /home/user -name bash",
    "grep", "grep bashrc", "grep bashrc .bashrc", "grep x Documents", "grep x nope" }

ToolInputs ==
  { "curl", "curl ftp://x", "curl http://x",
    "wget", "wget http://x/f.html", "wget ftp://x/", "wget http://x/user",
    "git", "git clone", "git clone http://x/r.git", "git clone Documents", "git status",
    "git init", "git add .", "git commit", "git push", "git pull", "git bogus",
    "python", "python3 .bashrc", "python x.py",
    "node", "nodejs .bashrc", "node x.js",
    "java", "java Main",
    "javac", "javac A.java", "javac .bashrc",
    "gcc", "gcc main.c", "gcc -o program main.c", "gcc .bashrc -o", "g++ .bashrc -o bin/out",
    "make", "npm", "npm install", "npm init", "npm start", "npm bogus",
    "pip", "pip3 install", "pip install x", "pip list", "pip bogus",
    "top", "htop", "ps", "df", "free", "uname", "uname -a", "whoami",
    "nano", "vim f", "vi",
    "tar", "tar -cf a.tar", "tar -xf a.tar", "tar -t",
    "zip", "zip a.zip", "unzip",
    "ssh", "ssh host", "scp", "scp a host:b", "rsync", "rsync a b",
    "clear", "help" }

UnknownInputs == { "foo", "LS", "Pwd x", "exit" }

Inputs == NavigationInputs \cup FileInputs \cup ToolInputs \cup UnknownInputs

(***************************************************************************)
(* State.                                                                  *)
(***************************************************************************)
VARIABLES
  fileSystem,        \* storage.fileSystem, shared by every connection
  connected,         \* the connections that have a TerminalProcessor
  currentDirectory,  \* processor.currentDirectory, per connection
  commandHistory,    \* processor.commandHistory, per connection
  ncalls,            \* how many times executeCommand has been called
  lastSession,       \* the connection of the last call
  lastCommand,       \* its argument
  lastResult,        \* the CommandResult it returned
  before,            \* the store and the processor's fields when it was called
  fault,             \* TRUE when the last call threw instead of returning
  inflight,          \* the executeCommand calls whose steps are taken one by one
  client,            \* the state of the Terminal component in the browser
  socket             \* the WebSocket between that component and the server

vars == <<fileSystem, connected, currentDirectory, commandHistory, ncalls,
          lastSession, lastCommand, lastResult, before, fault, inflight,
          client, socket>>

\* The variables of the server.
serverVars == <<fileSystem, connected, currentDirectory, commandHistory, ncalls,
                lastSession, lastCommand, lastResult, before, fault, inflight>>

NoResult ==
  [output |-> Undefined, error |-> Undefined, currentDirectory |-> Undefined,
   success |-> FALSE]

Init ==
  /\ fileSystem = initializeFileSystem
  /\ connected = {}
  /\ currentDirectory = [s \in Sessions |-> Undefined]
  /\ commandHistory = [s \in Sessions |-> <<>>]
  /\ ncalls = 0
  /\ lastSession = 0
  /\ lastCommand = Undefined
  /\ lastResult = NoResult
  /\ before = [fileSystem |-> <<>>, currentDirectory |-> Undefined,
               commandHistory |-> <<>>]
  /\ fault = FALSE
  /\ inflight = <<>>
  /\ client = [connected |-> FALSE, currentInput |-> "", commandHistory |-> <<>>,
               historyIndex |-> -1, currentDirectory |-> "/home/user",
               commandEntries |-> <<>>, activeTab |-> "terminal"]
  /\ socket = [nsent |-> 0, toServer |-> <<>>, toClient |-> <<>>]

\* A connection that also constructs its own MemStorage.
Connect_newStorage(s) ==
  /\ s \notin connected
  /\ connected' = connected \cup {s}
  /\ currentDirectory' = [currentDirectory EXCEPT ![s] = "/home/user"]
  /\ commandHistory' = [commandHistory EXCEPT ![s] = <<>>]
  /\ fileSystem' = initializeFileSystem
  /\ UNCHANGED <<ncalls, lastSession, lastCommand, lastResult, before, fault, inflight,
                 client, socket>>

\* wss.on('connection'): const processor = new TerminalProcessor()
Connect(s) ==
  /\ s \notin connected
  /\ connected' = connected \cup {s}
  /\ currentDirectory' = [currentDirectory EXCEPT ![s] = "/home/user"]
  /\ commandHistory' = [commandHistory EXCEPT ![s] = <<>>]
  /\ UNCHANGED <<fileSystem, ncalls, lastSession, lastCommand, lastResult, before, fault,
                 inflight, client, socket>>

\* executeCommand on one processor that every connection shares.
Call_sharedProcessor(s, command) ==
  /\ s \in connected
  /\ LET r == executeCommand(fileSystem, currentDirectory[s], commandHistory[s], command)
     IN  /\ fileSystem' = r.fs
         /\ currentDirectory' = [t \in Sessions |->
                                   IF t \in connected THEN r.cwd ELSE currentDirectory[t]]
         /\ commandHistory' = [t \in Sessions |->
                                 IF t \in connected THEN r.history ELSE commandHistory[t]]
         /\ lastResult' = r.result
         /\ fault' = r.thrown
  /\ ncalls' = ncalls + 1
  /\ lastSession' = s
  /\ lastCommand' = command
  /\ before' = [fileSystem |-> fileSystem, currentDirectory |-> currentDirectory[s],
                commandHistory |-> commandHistory[s]]
  /\ UNCHANGED <<connected, inflight>>

\* processor.executeCommand(command) on connection s, from call to return.
Call(s, command) ==
  /\ s \in connected
  /\ LET r == executeCommand(fileSystem, currentDirectory[s], commandHistory[s], command)
     IN  /\ fileSystem' = r.fs
         /\ currentDirectory' = [currentDirectory EXCEPT ![s] = r.cwd]
         /\ commandHistory' = [commandHistory EXCEPT ![s] = r.history]
         /\ lastResult' = r.result
         /\ fault' = r.thrown
  /\ ncalls' = ncalls + 1
  /\ lastSession' = s
  /\ lastCommand' = command
  /\ before' = [fileSystem |-> fileSystem, currentDirectory |-> currentDirectory[s],
                commandHistory |-> commandHistory[s]]
  /\ UNCHANGED <<connected, inflight>>

\* ws.on('message'): a command line arrives on connection s.
Execute(s, command) ==
  /\ ncalls < MaxCommands
  /\ Call(s, command)
  /\ UNCHANGED <<client, socket>>

Next ==
  \/ \E s \in Sessions : Connect(s)
  \/ \E s \in Sessions, command \in Inputs : Execute(s, command)

Spec == Init /\ [][Next]_vars

(***************************************************************************)
(* A scripted session.  Connection ScriptSession sends the command lines   *)
(* of Script one after the other; the other connections send commands of   *)
(* ObserverInputs in between, at most MaxObserved of them in all.          *)
(***************************************************************************)
ScriptSession == 1

Script ==
  << "pwd", "mkdir proj", "cd proj", "touch a.txt", "ls", "cat a.txt", "rm a.txt", "ls" >>

ObserverInputs == { "pwd", "ls -la", "cat .bashrc" }

MaxObserved == 2

\* The next line of Script arrives on ScriptSession.
RunScript ==
  LET sent == Len(commandHistory[ScriptSession])
  IN  /\ sent < Len(Script)
      /\ Call(ScriptSession, Script[sent + 1])
      /\ UNCHANGED <<client, socket>>

\* A command line arrives on another connection.
Observe(s, command) ==
  /\ s # ScriptSession
  /\ ncalls - Len(commandHistory[ScriptSession]) < MaxObserved
  /\ Call(s, command)
  /\ UNCHANGED <<client, socket>>

ScenarioNext ==
  \/ \E s \in Sessions : Connect(s)
  \/ RunScript
  \/ \E s \in Sessions, command \in ObserverInputs : Observe(s, command)

SpecScenario == Init /\ [][ScenarioNext]_vars


(***************************************************************************)
(* Vocabulary of the properties.                                           *)
(***************************************************************************)
\* executeCommand has been called: lastSession, lastCommand, lastResult and
\* before describe the last call, and the session's fields are as it left
\* them (Connect touches only a session that has no processor yet).
Called == ncalls > 0

\* The command name and the arguments of a command line.
CmdOf(command) == SplitWs(Trim(command))[1]
ArgsOf(command) == Tail(SplitWs(Trim(command)))
IsBlank(command) == Trim(command) = ""

\* The path up to the last "/", or "/" when that is empty.
ParentOf(path) == OrElse(Substring(path, 0, LastIndexOf(path, "/")), "/")

IsDirectoryAt(fs, path) == MapHas(fs, path) /\ MapGet(fs, path).type = "directory"

(***************************************************************************)
(* C1: in every reachable state the store holds a node at "/" and it is a  *)
(* directory; no command removes it.                                       *)
(***************************************************************************)
C1_RootAlwaysDirectory == IsDirectoryAt(fileSystem, "/")

(***************************************************************************)
(* C2: in every reachable state each session's currentDirectory is the     *)
(* path of an existing directory node.                                     *)
(***************************************************************************)
C2_CwdIsExistingDirectory ==
  \A s \in connected : IsDirectoryAt(fileSystem, currentDirectory[s])

(***************************************************************************)
(* C3: in every reachable state the derived parent path of every node      *)
(* other than "/" is present in the store as a directory.                  *)
(***************************************************************************)
C3_ParentIsDirectory ==
  \A k \in MapKeys(fileSystem) : k # "/" => IsDirectoryAt(fileSystem, ParentOf(k))

(***************************************************************************)
(* C4: no two nodes of the store share a path, and every node's path field *)
(* is the key it is stored under.                                          *)
(***************************************************************************)
C4_UniquePaths ==
  /\ \A i, j \in 1..Len(fileSystem) :
       fileSystem[i].key = fileSystem[j].key => i = j
  /\ \A i, j \in 1..Len(fileSystem) :
       fileSystem[i].item.path = fileSystem[j].item.path => i = j
  /\ \A i \in 1..Len(fileSystem) : fileSystem[i].item.path = fileSystem[i].key

\* C4's case: a command has written to a path that was occupied (a file
\* copied onto the directory /home/user), and the store has one node there.
C4_Witness ==
  /\ lastCommand = "cp .bashrc /home/user"
  /\ lastResult.success
  /\ MapGet(fileSystem, "/home/user").type = "file"
  /\ Cardinality({i \in 1..Len(fileSystem) : fileSystem[i].item.path = "/home/user"}) = 1


(***************************************************************************)
(* C5: `cd p` succeeds exactly when the resolved path is an existing       *)
(* directory and then sets currentDirectory to it; otherwise (path absent, *)
(* or a file) it returns success=false and leaves currentDirectory as it   *)
(* was; `cd` with no argument targets /home/user.                          *)
(***************************************************************************)
C5_ChangeDirectory ==
  Called /\ CmdOf(lastCommand) = "cd" =>
    LET args == ArgsOf(lastCommand)
        target == IF Len(args) = 0 THEN "/home/user"
                  ELSE resolvePath(before.currentDirectory, args[1])
        isDir == IsDirectoryAt(before.fileSystem, target)
    IN  /\ lastResult.success = isDir
        /\ currentDirectory[lastSession] =
             IF isDir THEN target ELSE before.currentDirectory

\* C5's case: cd onto an existing file was refused and the session stayed.
C5_Witness ==
  /\ lastCommand = "cd .bashrc"
  /\ ~lastResult.success
  /\ lastResult.error = "Not a directory"
  /\ currentDirectory[lastSession] = "/home/user"

(***************************************************************************)
(* C6: every command other than cd leaves the session's currentDirectory   *)
(* unchanged, and the currentDirectory field of every returned result      *)
(* (successful or failed) is the session's currentDirectory after the call.*)
(***************************************************************************)
C6_ResultCarriesCwd ==
  Called =>
    /\ CmdOf(lastCommand) # "cd" =>
         currentDirectory[lastSession] = before.currentDirectory
    /\ lastResult.currentDirectory = currentDirectory[lastSession]

\* C6's case: after a cd, a failed command returned the directory cd had set.
C6_Witness ==
  /\ ncalls = 2
  /\ lastCommand = "cat a.txt"
  /\ ~lastResult.success
  /\ currentDirectory[lastSession] = "/home/user/Documents"
  /\ lastResult.currentDirectory = "/home/user/Documents"

(***************************************************************************)
(* C7: every call of executeCommand whose input is non-empty after         *)
(* trimming appends one entry, the command, to the end of the session's    *)
(* commandHistory, whether the command succeeded, failed or is unknown, so *)
(* that after N such calls the history has N entries in invocation order;  *)
(* a whitespace-only input returns success with empty output and changes   *)
(* neither history, store nor currentDirectory; no call removes or         *)
(* reorders entries.                                                       *)
(***************************************************************************)
C7_HistoryAppendOnly ==
  Called =>
    LET old == before.commandHistory
        new == commandHistory[lastSession]
    IN  IF IsBlank(lastCommand)
        THEN /\ lastResult.success
             /\ lastResult.output = ""
             /\ new = old
             /\ fileSystem = before.fileSystem
             /\ currentDirectory[lastSession] = before.currentDirectory
        ELSE /\ Len(new) = Len(old) + 1
             /\ SubSeq(new, 1, Len(old)) = old
             /\ new[Len(new)] = Trim(lastCommand)

\* C7's case: an unknown command was recorded and the blank line after it
\* was not.
C7_Witness ==
  /\ ncalls = 2
  /\ IsBlank(lastCommand)
  /\ commandHistory[lastSession] = <<"foo">>

(***************************************************************************)
(* C8: a returned result carries an error value if and only if its success *)
(* is false.                                                               *)
(***************************************************************************)
C8_ErrorIffFailure ==
  Called => ((lastResult.error # Undefined) <=> ~lastResult.success)

\* C8's case: mkdir with one path that succeeds and one that fails.
C8_Witness ==
  /\ lastCommand = "mkdir proj a/b"
  /\ ~lastResult.success
  /\ lastResult.error = "mkdir: cannot create directory 'a/b': No such file or directory"
  /\ MapHas(fileSystem, "/home/user/proj")

(***************************************************************************)
(* C9: a command line whose first token is not exactly one of the          *)
(* dispatched names returns success=false with the error                   *)
(* "<cmd>: command not found" and leaves the store and currentDirectory    *)
(* unchanged.                                                              *)
(***************************************************************************)
\* The case labels of the switch.
DispatchedNames ==
  { "pwd", "ls", "cd", "mkdir", "touch", "cat", "echo", "rm", "clear", "help",
    "curl", "wget", "git", "python", "python3", "node", "nodejs", "java", "javac",
    "gcc", "g++", "make", "npm", "pip", "pip3", "top", "htop", "ps", "df", "free",
    "uname", "whoami", "nano", "vim", "vi", "find", "grep", "tar", "zip", "unzip",
    "cp", "mv", "chmod", "ssh", "scp", "rsync" }

C9_UnknownCommand ==
  Called /\ ~IsBlank(lastCommand) /\ CmdOf(lastCommand) \notin DispatchedNames =>
    /\ lastResult.success = FALSE
    /\ lastResult.error = CmdOf(lastCommand) \o ": command not found"
    /\ fileSystem = before.fileSystem
    /\ currentDirectory[lastSession] = before.currentDirectory

\* C9's case: a dispatched name in another case is unknown.
C9_Witness ==
  /\ lastCommand = "LS"
  /\ ~lastResult.success
  /\ lastResult.error = "LS: command not found"

(***************************************************************************)
(* C10: every call of executeCommand returns one CommandResult; no error   *)
(* raised inside a handler leaves executeCommand.                          *)
(***************************************************************************)
C10_NoFaultPropagates ==
  /\ ~fault
  /\ Called =>
       /\ lastResult.success \in BOOLEAN
       /\ lastResult.output # Undefined
       /\ lastResult.currentDirectory # Undefined

\* C10's case: a handler threw (find reads a property of the missing
\* pattern) and the call returned a failed result.
C10_Witness ==
  /\ lastCommand = "find /home/user -name"
  /\ ~fault
  /\ ~lastResult.success
  /\ lastResult.error = TypeErrorReplace

(***************************************************************************)
(* C11: from a fresh store and a fresh session the trace pwd, mkdir proj,  *)
(* cd proj, touch a.txt, ls, cat a.txt, rm a.txt, ls returns in order:     *)
(* output "/home/user"; success with empty output; currentDirectory        *)
(* "/home/user/proj"; success; output "a.txt"; empty output; success;      *)
(* empty output.  (Under SpecScenario the length of the scripted session's *)
(* history is the number of lines of Script it has sent.)                  *)
(***************************************************************************)
C11_ScenarioTrace ==
  Called /\ lastSession = ScriptSession =>
    LET sent == Len(commandHistory[ScriptSession])
        r == lastResult
    IN  /\ lastCommand = Script[sent]
        /\ sent = 1 => r.output = "/home/user"
        /\ sent = 2 => r.success /\ r.output = ""
        /\ sent = 3 => /\ r.currentDirectory = "/home/user/proj"
                       /\ currentDirectory[ScriptSession] = "/home/user/proj"
        /\ sent = 4 => r.success
        /\ sent = 5 => r.output = "a.txt"
        /\ sent = 6 => r.output = ""
        /\ sent = 7 => r.success
        /\ sent = 8 => r.output = ""

\* C11's case: the whole script has run; the last ls listed the emptied
\* directory.
C11_Witness ==
  /\ lastSession = ScriptSession
  /\ commandHistory[ScriptSession] = Script
  /\ lastResult.success
  /\ lastResult.output = ""
  /\ MapHas(fileSystem, "/home/user/proj")
  /\ ~MapHas(fileSystem, "/home/user/proj/a.txt")

(***************************************************************************)
(* C12: the store starts with exactly the directories /, /home,            *)
(* /home/user, /home/user/Documents, /home/user/Projects and the files     *)
(* /home/user/.bashrc, /home/user/.profile, /home/user/.bash_logout; every *)
(* step that connects a session leaves it with currentDirectory            *)
(* /home/user and an empty history, whatever the store holds by then.      *)
(***************************************************************************)
C12_InitialStoreAndSession ==
  /\ {<<fileSystem[i].key, fileSystem[i].item.type>> : i \in 1..Len(fileSystem)} =
       { <<"/", "directory">>, <<"/home", "directory">>, <<"/home/user", "directory">>,
         <<"/home/user/Documents", "directory">>, <<"/home/user/Projects", "directory">>,
         <<"/home/user/.bashrc", "file">>, <<"/home/user/.profile", "file">>,
         <<"/home/user/.bash_logout", "file">> }
  /\ [][ \A s \in Sessions :
           s \notin connected /\ s \in connected' =>
             /\ currentDirectory'[s] = "/home/user"
             /\ commandHistory'[s] = <<>>
       ]_vars

\* C12's case: a session connected after another one had changed the store
\* and moved away.
C12_Witness ==
  /\ ncalls = 2
  /\ MapHas(fileSystem, "/home/user/proj")
  /\ currentDirectory[lastSession] = "/home/user/proj"
  /\ \E s \in connected :
       s # lastSession /\ currentDirectory[s] = "/home/user" /\ commandHistory[s] = <<>>

(***************************************************************************)
(* C13: mkdir creates a node at the resolved path of an argument only when *)
(* that path is unoccupied and its parent path is in the store; the node   *)
(* is a directory with permissions drwxr-xr-x, size 4096 and null content; *)
(* on an occupied path it reports "File exists" and leaves the node as it  *)
(* was; when the parent is absent (the parent "/" after the root was       *)
(* removed included) it reports "No such file or directory" and creates    *)
(* nothing.  Stated for calls whose arguments name distinct paths none of  *)
(* which is the parent of another.                                         *)
(***************************************************************************)
C13_MakeDirectory ==
  Called /\ CmdOf(lastCommand) = "mkdir" =>
    LET args == ArgsOf(lastCommand)
        paths == [i \in 1..Len(args) |-> resolvePath(before.currentDirectory, args[i])]
        independent == \A i, j \in 1..Len(args) :
                         i # j => paths[i] # paths[j] /\ ParentOf(paths[i]) # paths[j]
    IN  independent =>
          \A i \in 1..Len(args) :
            LET old == MapGet(before.fileSystem, paths[i])
                new == MapGet(fileSystem, paths[i])
            IN  IF MapHas(before.fileSystem, paths[i])
                THEN /\ new = old
                     /\ Includes(lastResult.output, "'" \o args[i] \o "': File exists")
                ELSE IF MapHas(before.fileSystem, ParentOf(paths[i]))
                THEN /\ new.type = "directory"
                     /\ new.permissions = "drwxr-xr-x"
                     /\ new.size = "4096"
                     /\ new.content = Null
                ELSE /\ ~MapHas(fileSystem, paths[i])
                     /\ Includes(lastResult.output,
                                 "'" \o args[i] \o "': No such file or directory")

(***************************************************************************)
(* C14: mkdir and rm with several paths treat each path on its own, in     *)
(* argument order: a path that can succeed is applied whether or not       *)
(* another one fails; success is true iff every path succeeded; error is   *)
(* the message of the first failing path and output holds one message per  *)
(* failing path.  Stated for calls whose arguments name distinct paths     *)
(* none of which is the parent of another, so that what a path can do is   *)
(* read off the store before the call.                                     *)
(***************************************************************************)
C14_PerPathNoRollback ==
  Called /\ CmdOf(lastCommand) \in {"mkdir", "rm"} /\ Len(ArgsOf(lastCommand)) > 0 =>
    LET cmd == CmdOf(lastCommand)
        args == ArgsOf(lastCommand)
        paths == [i \in 1..Len(args) |-> resolvePath(before.currentDirectory, args[i])]
        independent == \A i, j \in 1..Len(args) :
                         i # j => paths[i] # paths[j] /\ ParentOf(paths[i]) # paths[j]
        canSucceed(i) ==
          IF cmd = "rm" THEN MapHas(before.fileSystem, paths[i])
          ELSE /\ ~MapHas(before.fileSystem, paths[i])
               /\ (MapHas(before.fileSystem, ParentOf(paths[i])) \/ ParentOf(paths[i]) = "/")
        failing == SelectSeq([i \in 1..Len(args) |-> i], LAMBDA i : ~canSucceed(i))
        lines == Split(lastResult.output, "\n")
    IN  independent =>
          /\ \A i \in 1..Len(args) :
               canSucceed(i) => (MapHas(fileSystem, paths[i]) <=> cmd = "mkdir")
          /\ \A i \in 1..Len(args) :
               ~canSucceed(i) => (MapHas(fileSystem, paths[i]) <=>
                                   MapHas(before.fileSystem, paths[i]))
          /\ lastResult.success = (Len(failing) = 0)
          /\ IF Len(failing) = 0
             THEN lastResult.error = Undefined /\ lastResult.output = ""
             ELSE /\ Len(lines) = Len(failing)
                  /\ \A n \in 1..Len(failing) :
                       Includes(lines[n], "'" \o args[failing[n]] \o "'")
                  /\ lastResult.error = lines[1]

\* C14's case: rm whose first path fails and whose second is removed all the
\* same.
C14_Witness ==
  /\ lastCommand = "rm nope .bashrc"
  /\ MapHas(before.fileSystem, "/home/user/.bashrc")
  /\ ~MapHas(fileSystem, "/home/user/.bashrc")
  /\ ~lastResult.success
  /\ lastResult.error = "rm: cannot remove 'nope': No such file or directory"

(***************************************************************************)
(* C15: for every unoccupied path p whose parent exists, after `mkdir p`   *)
(* the store reports p as existing, after a following `rm p` it reports p  *)
(* as absent, and the set of occupied paths is the one before the mkdir.   *)
(* Checked from every reachable store and every connected session for the  *)
(* operands of RoundTripOperands, and on the run that sends `mkdir proj`   *)
(* and `rm proj` to a fresh store.                                         *)
(***************************************************************************)
RoundTripOperands == { "proj", "/x", "Documents/d" }

C15_MkdirRmRoundTrip ==
  /\ \A s \in connected, p \in RoundTripOperands :
       LET path == resolvePath(currentDirectory[s], p)
           made == executeCommand(fileSystem, currentDirectory[s], commandHistory[s],
                                  "mkdir " \o p)
           removed == executeCommand(made.fs, made.cwd, made.history, "rm " \o p)
       IN  ~fileSystemItemExists(fileSystem, path)
             /\ fileSystemItemExists(fileSystem, ParentOf(path)) =>
               /\ made.result.success
               /\ fileSystemItemExists(made.fs, path)
               /\ removed.result.success
               /\ ~fileSystemItemExists(removed.fs, path)
               /\ MapKeys(removed.fs) = MapKeys(fileSystem)
  /\ ncalls = 2 /\ commandHistory[lastSession] = <<"mkdir proj", "rm proj">> =>
       /\ fileSystemItemExists(before.fileSystem, "/home/user/proj")
       /\ ~fileSystemItemExists(fileSystem, "/home/user/proj")
       /\ MapKeys(fileSystem) = MapKeys(initializeFileSystem)

\* C15's case: mkdir proj and rm proj have run on a fresh store.
C15_Witness ==
  /\ ncalls = 2
  /\ commandHistory[lastSession] = <<"mkdir proj", "rm proj">>
  /\ lastResult.success
  /\ fileSystemItemExists(before.fileSystem, "/home/user/proj")
  /\ ~fileSystemItemExists(fileSystem, "/home/user/proj")

(***************************************************************************)
(* C16: touch with at least one argument always returns success; on an     *)
(* unoccupied path it creates a file node with empty content, size "0" and *)
(* permissions -rw-r--r--; on an occupied path it leaves the node, and a   *)
(* call whose paths are all occupied leaves the whole store, unchanged;    *)
(* running the same touch again gives the same store, and after touching   *)
(* an unoccupied path there is exactly one node at it, a file.             *)
(***************************************************************************)
C16_TouchIdempotent ==
  Called /\ CmdOf(lastCommand) = "touch" /\ Len(ArgsOf(lastCommand)) > 0 =>
    LET args == ArgsOf(lastCommand)
        cwd == before.currentDirectory
        paths == {resolvePath(cwd, args[i]) : i \in 1..Len(args)}
        again == executeCommand(fileSystem, currentDirectory[lastSession],
                                commandHistory[lastSession], lastCommand)
    IN  /\ lastResult.success
        /\ lastResult.output = ""
        /\ \A p \in paths :
             IF MapHas(before.fileSystem, p)
             THEN MapGet(fileSystem, p) = MapGet(before.fileSystem, p)
             ELSE /\ MapGet(fileSystem, p).type = "file"
                  /\ MapGet(fileSystem, p).content = ""
                  /\ MapGet(fileSystem, p).size = "0"
                  /\ MapGet(fileSystem, p).permissions = "-rw-r--r--"
                  /\ Cardinality({i \in 1..Len(fileSystem) : fileSystem[i].key = p}) = 1
        /\ (\A p \in paths : MapHas(before.fileSystem, p)) => fileSystem = before.fileSystem
        /\ \A k \in MapKeys(before.fileSystem) \cup MapKeys(fileSystem) :
             k \notin paths => /\ MapHas(before.fileSystem, k)
                               /\ MapGet(fileSystem, k) = MapGet(before.fileSystem, k)
        /\ again.result.success
        /\ again.fs = fileSystem

\* C16's case: the second `touch a.txt` found the file the first had made.
C16_Witness ==
  /\ ncalls = 2
  /\ commandHistory[lastSession] = <<"touch a.txt", "touch a.txt">>
  /\ lastResult.success
  /\ fileSystem = before.fileSystem
  /\ MapGet(fileSystem, "/home/user/a.txt").type = "file"
  /\ Cardinality({i \in 1..Len(fileSystem) : fileSystem[i].key = "/home/user/a.txt"}) = 1

(***************************************************************************)
(* C17: echo never fails.  When its arguments hold a ">" token followed by *)
(* a filename, the node at the resolved path of the filename becomes a     *)
(* file whose content is the words before the first ">" joined by single   *)
(* spaces with every double quote removed and whose size is the decimal    *)
(* length of that content, the output is empty, and no other path changes; *)
(* otherwise the store is unchanged and the output is the arguments joined *)
(* by spaces with the double quotes removed.                               *)
(***************************************************************************)
C17_EchoRedirect ==
  Called /\ CmdOf(lastCommand) = "echo" =>
    LET args == ArgsOf(lastCommand)
        at == {i \in 1..Len(args) : args[i] = ">"}
        first == IF at = {} THEN 0 ELSE CHOOSE i \in at : \A j \in at : i <= j
        redirected == first # 0 /\ first < Len(args)
        content == RemoveAll(Join(SubSeq(args, 1, first - 1), " "), "\"")
        path == resolvePath(before.currentDirectory, args[first + 1])
        node == MapGet(fileSystem, path)
    IN  /\ lastResult.success
        /\ lastResult.error = Undefined
        /\ IF redirected
           THEN /\ lastResult.output = ""
                /\ node.type = "file"
                /\ node.content = content
                /\ node.size = NumToString(Len(content))
                /\ MapKeys(fileSystem) = MapKeys(before.fileSystem) \cup {path}
                /\ \A k \in MapKeys(before.fileSystem) :
                     k # path => MapGet(fileSystem, k) = MapGet(before.fileSystem, k)
           ELSE /\ fileSystem = before.fileSystem
                /\ lastResult.output = RemoveAll(Join(args, " "), "\"")
        /\ lastCommand = "echo \"hi\" > out.txt" =>
             /\ node.content = "hi"
             /\ node.size = "2"
        /\ lastCommand = "echo hi  there" => lastResult.output = "hi there"

\* C17's case: a redirected echo has replaced the directory /home/user by a
\* file of one character.
C17_Witness ==
  /\ lastCommand = "echo x > /home/user"
  /\ lastResult.success
  /\ MapGet(before.fileSystem, "/home/user").type = "directory"
  /\ MapGet(fileSystem, "/home/user").type = "file"
  /\ MapGet(fileSystem, "/home/user").content = "x"
  /\ MapGet(fileSystem, "/home/user").size = "1"

(***************************************************************************)
(* C18: ls without -l, -la or -al lists the first argument that is no      *)
(* flag, or currentDirectory when there is none; on a path absent from the *)
(* store it returns success=false; on an existing directory it succeeds    *)
(* and its output is the names of exactly the nodes, other than the        *)
(* directory, whose derived parent is the directory, without the names     *)
(* starting with "." unless -a is given, in ascending order and joined by  *)
(* two spaces.                                                             *)
(***************************************************************************)
C18_ListDirectory ==
  Called /\ CmdOf(lastCommand) = "ls"
         /\ ~(\E a \in {"-l", "-la", "-al"} : ArrIncludes(ArgsOf(lastCommand), a)) =>
    LET args == ArgsOf(lastCommand)
        fs == before.fileSystem
        operands == SelectSeq(args, LAMBDA a : ~StartsWith(a, "-"))
        target == IF Len(operands) = 0 THEN before.currentDirectory ELSE operands[1]
        path == resolvePath(before.currentDirectory, target)
        showAll == \E i \in 1..Len(args) : args[i] = "-a"
        kids == SelectSeq(MapValues(fs),
                          LAMBDA n : /\ n.path # path
                                     /\ ParentOf(n.path) = path
                                     /\ (showAll \/ ~StartsWith(n.name, ".")))
        names == Sort([i \in 1..Len(kids) |-> kids[i].name])
    IN  /\ ~MapHas(fs, path) => ~lastResult.success
        /\ IsDirectoryAt(fs, path) =>
             /\ lastResult.success
             /\ \A i, j \in 1..Len(names) : i < j => ~StrLess(names[j], names[i])
             /\ lastResult.output = Join(names, "  ")
        /\ ncalls = 1 /\ lastCommand = "ls" => lastResult.output = "Documents  Projects"
        /\ ncalls = 1 /\ lastCommand = "ls -a" =>
             lastResult.output = ".bash_logout  .bashrc  .profile  Documents  Projects"

\* C18's case: ls in a directory that holds a hidden file, an upper-case and
\* two lower-case names.
C18_Witness ==
  /\ ncalls = 2
  /\ commandHistory[lastSession] = <<"touch A.java main.c", "ls">>
  /\ lastResult.success
  /\ lastResult.output = "A.java  Documents  Projects  main.c"

(***************************************************************************)
(* C19: `cat p` returns success with the node's content (the empty string  *)
(* for an empty file) when the resolved path is a file; success=false with *)
(* an error containing "No such file or directory" when the path is        *)
(* absent; success=false with the error "Is a directory" when it is a      *)
(* directory; in all three cases the store is unchanged.                   *)
(***************************************************************************)
C19_ReadFile ==
  Called /\ CmdOf(lastCommand) = "cat" /\ Len(ArgsOf(lastCommand)) > 0 =>
    LET path == resolvePath(before.currentDirectory, ArgsOf(lastCommand)[1])
        node == MapGet(before.fileSystem, path)
    IN  /\ fileSystem = before.fileSystem
        /\ IF ~MapHas(before.fileSystem, path)
           THEN /\ ~lastResult.success
                /\ Includes(lastResult.error, "No such file or directory")
           ELSE IF node.type = "directory"
           THEN /\ ~lastResult.success
                /\ lastResult.error = "Is a directory"
           ELSE /\ lastResult.success
                /\ lastResult.error = Undefined
                /\ lastResult.output = IF node.content = Null THEN "" ELSE node.content

\* C19's case: cat of a file that touch has just created empty.
C19_Witness ==
  /\ ncalls = 2
  /\ commandHistory[lastSession] = <<"touch a.txt", "cat a.txt">>
  /\ MapGet(fileSystem, "/home/user/a.txt").content = ""
  /\ lastResult.success
  /\ lastResult.output = ""

(***************************************************************************)
(* C20: `cp src dst` with an existing source succeeds and leaves at the    *)
(* resolved destination, created or overwritten, a node with the source's  *)
(* kind, content, permissions and size; every node at another path, the    *)
(* source included, is unchanged and no path is removed; with a missing    *)
(* source it returns success=false ("cannot stat") and the store is        *)
(* unchanged.                                                              *)
(***************************************************************************)
C20_CopyFile ==
  Called /\ CmdOf(lastCommand) = "cp" /\ Len(ArgsOf(lastCommand)) >= 2 =>
    LET args == ArgsOf(lastCommand)
        src == resolvePath(before.currentDirectory, args[1])
        dst == resolvePath(before.currentDirectory, args[2])
        from == MapGet(before.fileSystem, src)
        to == MapGet(fileSystem, dst)
    IN  IF MapHas(before.fileSystem, src)
        THEN /\ lastResult.success
             /\ to.path = dst
             /\ to.type = from.type
             /\ to.content = from.content
             /\ to.permissions = from.permissions
             /\ to.size = from.size
             /\ MapKeys(fileSystem) = MapKeys(before.fileSystem) \cup {dst}
             /\ \A k \in MapKeys(before.fileSystem) :
                  k # dst => MapGet(fileSystem, k) = MapGet(before.fileSystem, k)
        ELSE /\ ~lastResult.success
             /\ Includes(lastResult.output, "cannot stat")
             /\ fileSystem = before.fileSystem

\* C20's case: a directory was copied to a new path and kept at its own.
C20_Witness ==
  /\ lastCommand = "cp Documents Projects/d"
  /\ lastResult.success
  /\ ~MapHas(before.fileSystem, "/home/user/Projects/d")
  /\ MapGet(fileSystem, "/home/user/Projects/d").type = "directory"
  /\ MapGet(fileSystem, "/home/user/Projects/d").permissions = "drwxr-xr-x"
  /\ MapGet(fileSystem, "/home/user/Documents") = MapGet(before.fileSystem, "/home/user/Documents")

(***************************************************************************)
(* C21: after every successful `mv src dst`, operands that resolve to the  *)
(* same path included, the store holds at the resolved destination a node  *)
(* with the kind, content, permissions and size the source had, so the     *)
(* moved node is never lost; when the two paths differ the source path is  *)
(* absent afterwards.                                                      *)
(***************************************************************************)
C21_MoveKeepsNode ==
  Called /\ CmdOf(lastCommand) = "mv" /\ Len(ArgsOf(lastCommand)) >= 2
         /\ lastResult.success =>
    LET args == ArgsOf(lastCommand)
        src == resolvePath(before.currentDirectory, args[1])
        dst == resolvePath(before.currentDirectory, args[2])
        from == MapGet(before.fileSystem, src)
        to == MapGet(fileSystem, dst)
    IN  /\ MapHas(fileSystem, dst)
        /\ to.type = from.type
        /\ to.content = from.content
        /\ to.permissions = from.permissions
        /\ to.size = from.size
        /\ src # dst => ~MapHas(fileSystem, src)

(***************************************************************************)
(* C22: `chmod mode p` on an existing node succeeds and sets that node's   *)
(* permissions to "-" followed by mode; its path, name, kind, content and  *)
(* size and every other node are unchanged; on a missing path it returns   *)
(* success=false and leaves the store unchanged.                           *)
(***************************************************************************)
C22_ChangePermissions ==
  Called /\ CmdOf(lastCommand) = "chmod" /\ Len(ArgsOf(lastCommand)) >= 2 =>
    LET args == ArgsOf(lastCommand)
        path == resolvePath(before.currentDirectory, args[2])
        old == MapGet(before.fileSystem, path)
        new == MapGet(fileSystem, path)
    IN  IF MapHas(before.fileSystem, path)
        THEN /\ lastResult.success
             /\ new.permissions = "-" \o args[1]
             /\ new.path = old.path
             /\ new.name = old.name
             /\ new.type = old.type
             /\ new.content = old.content
             /\ new.size = old.size
             /\ MapKeys(fileSystem) = MapKeys(before.fileSystem)
             /\ \A k \in MapKeys(before.fileSystem) :
                  k # path => MapGet(fileSystem, k) = MapGet(before.fileSystem, k)
        ELSE /\ ~lastResult.success
             /\ fileSystem = before.fileSystem

\* C22's case: chmod of a file with content.
C22_Witness ==
  /\ lastCommand = "chmod 755 .bashrc"
  /\ lastResult.success
  /\ MapGet(before.fileSystem, "/home/user/.bashrc").permissions = "-rw-r--r--"
  /\ MapGet(fileSystem, "/home/user/.bashrc").permissions = "-755"
  /\ MapGet(fileSystem, "/home/user/.bashrc").content = "# .bashrc"

(***************************************************************************)
(* C23: mkdir, touch, rm, cat, curl and wget given no argument, and cp,    *)
(* mv, chmod and grep given fewer than two arguments, return success=false *)
(* and leave the store and currentDirectory unchanged.                     *)
(***************************************************************************)
C23_MissingOperand ==
  Called /\ ~IsBlank(lastCommand) =>
    LET cmd == CmdOf(lastCommand)
        n == Len(ArgsOf(lastCommand))
    IN  \/ cmd \in {"mkdir", "touch", "rm", "cat", "curl", "wget"} /\ n = 0
        \/ cmd \in {"cp", "mv", "chmod", "grep"} /\ n < 2
        => /\ ~lastResult.success
           /\ fileSystem = before.fileSystem
           /\ currentDirectory[lastSession] = before.currentDirectory

\* C23's case: mv with its source and no destination kept the source.
C23_Witness ==
  /\ lastCommand = "mv .bashrc"
  /\ ~lastResult.success
  /\ lastResult.error = "Missing destination"
  /\ MapHas(fileSystem, "/home/user/.bashrc")

(***************************************************************************)
(* C24: curl and wget given a URL whose scheme is neither http nor https   *)
(* return success=false with a protocol error and create no node; wget     *)
(* given an http URL returns success and creates a file node in            *)
(* currentDirectory named after the last path segment of the URL.          *)
(***************************************************************************)
C24_UrlProtocol ==
  Called /\ CmdOf(lastCommand) \in {"curl", "wget"} /\ Len(ArgsOf(lastCommand)) > 0 =>
    LET url == ArgsOf(lastCommand)[1]
        scheme == Split(url, ":")[1]
        segment == Pop(Split(url, "/"))
        path == resolvePath(before.currentDirectory, segment)
    IN  /\ scheme \notin {"http", "https"} =>
             /\ ~lastResult.success
             /\ Includes(lastResult.error, "protocol")
             /\ MapKeys(fileSystem) = MapKeys(before.fileSystem)
        /\ CmdOf(lastCommand) = "wget" /\ scheme \in {"http", "https"} /\ segment # "" =>
             /\ lastResult.success
             /\ MapGet(fileSystem, path).type = "file"
             /\ MapGet(fileSystem, path).name = segment
             /\ ParentOf(path) = before.currentDirectory

(***************************************************************************)
(* C25: gcc and g++ invoked as `gcc file`, `gcc file -o out` or            *)
(* `gcc -o out file` succeed whenever the source file exists and then      *)
(* leave a file node at the resolved path of out (a.out by default); when  *)
(* the source file is missing they return success=false and create no      *)
(* node.                                                                   *)
(***************************************************************************)
C25_CompileOutput ==
  Called /\ CmdOf(lastCommand) \in {"gcc", "g++"} =>
    LET args == ArgsOf(lastCommand)
        optionFirst == Len(args) = 3 /\ args[1] = "-o"
        optionLast == Len(args) = 3 /\ args[2] = "-o"
        source == IF optionFirst THEN args[3] ELSE args[1]
        out == IF optionFirst THEN args[2] ELSE IF optionLast THEN args[3] ELSE "a.out"
        sourcePath == resolvePath(before.currentDirectory, source)
        outPath == resolvePath(before.currentDirectory, out)
    IN  optionFirst \/ optionLast \/ (Len(args) = 1 /\ args[1] # "-o") =>
          IF MapHas(before.fileSystem, sourcePath)
          THEN /\ lastResult.success
               /\ MapGet(fileSystem, outPath).type = "file"
          ELSE /\ ~lastResult.success
               /\ MapKeys(fileSystem) = MapKeys(before.fileSystem)

(***************************************************************************)
(* C26: `find [path] [-name pattern]` never fails and never changes the    *)
(* store; it searches currentDirectory when no path is given (the form     *)
(* `find -name pat` included) and the path resolved against                *)
(* currentDirectory otherwise, and outputs the paths of the children of    *)
(* the searched directory whose name contains the pattern, all of them     *)
(* when the pattern is "*" or absent.                                      *)
(***************************************************************************)
C26_FindFiles ==
  Called /\ CmdOf(lastCommand) = "find" =>
    LET args == ArgsOf(lastCommand)
        hasPath == Len(args) > 0 /\ args[1] # "-name"
        rest == IF hasPath THEN Tail(args) ELSE args
        hasPattern == Len(rest) = 2 /\ rest[1] = "-name"
        dir == IF hasPath THEN resolvePath(before.currentDirectory, args[1])
               ELSE before.currentDirectory
        pattern == IF hasPattern THEN rest[2] ELSE "*"
        kids == SelectSeq(MapValues(before.fileSystem),
                          LAMBDA n : /\ n.path # dir
                                     /\ ParentOf(n.path) = dir
                                     /\ (pattern = "*" \/ Includes(n.name, pattern)))
    IN  /\ lastResult.success
        /\ fileSystem = before.fileSystem
        /\ Len(rest) = 0 \/ hasPattern =>
             lastResult.output = Join([i \in 1..Len(kids) |-> kids[i].path], "\n")

(***************************************************************************)
(* C27: resolvePath(cwd, raw) is, by the first rule that applies: raw when *)
(* raw starts with "/"; /home/user when raw is "~"; /home/user followed by *)
(* raw without its leading "~" when raw starts with "~/"; "/" followed by  *)
(* raw when cwd is "/"; otherwise cwd, "/" and raw.  The result depends    *)
(* only on cwd and raw, starts with "/", and keeps ".", "..", doubled and  *)
(* trailing slashes as they are.  Stated for the currentDirectory of every *)
(* connected session with the raw paths of RawPaths, and for the           *)
(* directory a successful cd has moved to.                                 *)
(***************************************************************************)
RawPaths ==
  { "/", "//", "/a", "/a/../b", "~", "~/x", "~x", "a", ".", "..", "./a", "../a",
    "a//b", "a/" }

C27_ResolvePath ==
  /\ \A s \in connected, raw \in RawPaths :
       LET cwd == currentDirectory[s]
           resolved == resolvePath(cwd, raw)
       IN  /\ resolved =
                CASE StartsWith(raw, "/") -> raw
                  [] raw = "~" -> "/home/user"
                  [] StartsWith(raw, "~/") -> "/home/user" \o SubSeq(raw, 2, Len(raw))
                  [] cwd = "/" -> "/" \o raw
                  [] OTHER -> cwd \o "/" \o raw
           /\ StartsWith(resolved, "/")
           /\ \A t \in connected :
                currentDirectory[t] = cwd => resolvePath(currentDirectory[t], raw) = resolved
           /\ cwd = "/home/user" =>
                /\ raw = ".." => resolved = "/home/user/.."
                /\ raw = "." => resolved = "/home/user/."
                /\ raw = "a//b" => resolved = "/home/user/a//b"
                /\ raw = "a/" => resolved = "/home/user/a/"
                /\ raw = "/a/../b" => resolved = "/a/../b"
                /\ raw = "~x" => resolved = "/home/user/~x"
  /\ Called /\ CmdOf(lastCommand) = "cd" /\ Len(ArgsOf(lastCommand)) > 0
            /\ lastResult.success =>
       LET raw == ArgsOf(lastCommand)[1]
       IN  currentDirectory[lastSession] =
             IF StartsWith(raw, "/") THEN raw
             ELSE IF before.currentDirectory = "/" THEN "/" \o raw
             ELSE before.currentDirectory \o "/" \o raw

\* C27's case: a relative path was resolved in the root directory.
C27_Witness ==
  /\ ncalls = 2
  /\ commandHistory[lastSession] = <<"cd /", "mkdir proj">>
  /\ currentDirectory[lastSession] = "/"
  /\ MapHas(fileSystem, "/proj")
  /\ resolvePath("/", "proj") = "/proj"

(***************************************************************************)
(* C28: a command executed in one session changes neither the              *)
(* currentDirectory nor the commandHistory of any other session, however   *)
(* the commands of the sessions interleave.                                *)
(***************************************************************************)
C28_SessionIsolation ==
  [][ ncalls' = ncalls + 1 =>
        \A t \in Sessions :
          t # lastSession' => /\ currentDirectory'[t] = currentDirectory[t]
                              /\ commandHistory'[t] = commandHistory[t]
    ]_vars

\* C28's case: one session moved to Documents, then the other moved to the
\* root; the first is where it was.
C28_Witness ==
  /\ ncalls = 2
  /\ \E s, t \in connected :
       /\ s # t
       /\ lastSession = t
       /\ commandHistory[s] = <<"cd Documents">>
       /\ commandHistory[t] = <<"cd /">>
       /\ currentDirectory[s] = "/home/user/Documents"
       /\ currentDirectory[t] = "/"

(***************************************************************************)
(* C29: all sessions work on one store: what a completed command of one    *)
(* session created, overwrote or removed is what every later command of    *)
(* every other session finds.  When two sessions have each sent one        *)
(* command, the second command returns what it would return, and leaves    *)
(* the store it would leave, had one session in /home/user sent both; a    *)
(* file touched by one session is listed by the other's ls, and a path     *)
(* removed by one makes the other's cat of it fail.                        *)
(***************************************************************************)
C29_SharedStore ==
  \A s, t \in connected :
    /\ s # t
    /\ ncalls = 2
    /\ lastSession = t
    /\ Len(commandHistory[s]) = 1
    /\ Len(commandHistory[t]) = 1
    => LET first == executeCommand(initializeFileSystem, "/home/user", <<>>,
                                   commandHistory[s][1])
           second == executeCommand(first.fs, "/home/user", <<>>, lastCommand)
       IN  /\ before.fileSystem = first.fs
           /\ lastResult = second.result
           /\ fileSystem = second.fs
           /\ commandHistory[s][1] = "touch a.txt" /\ lastCommand = "ls" =>
                lastResult.output = "Documents  Projects  a.txt"
           /\ commandHistory[s][1] = "rm .bashrc nope" /\ lastCommand = "cat .bashrc" =>
                ~lastResult.success

\* C29's case: the file one session touched is in the other's listing.
C29_Witness ==
  /\ ncalls = 2
  /\ \E s, t \in connected :
       /\ s # t
       /\ lastSession = t
       /\ commandHistory[s] = <<"touch a.txt">>
       /\ commandHistory[t] = <<"ls">>
       /\ lastResult.output = "Documents  Projects  a.txt"


(***************************************************************************)
(* Handlers step by step.  Every storage method is an async function, so   *)
(* a handler runs up to its next `await storage...` in one piece: the      *)
(* method's body (its read or write of the Map) runs at the call, and the  *)
(* handler continues with the value in a later microtask.  Between the     *)
(* two, the handlers of other messages run.  inflight holds one record per *)
(* executeCommand call: the connection, the command line, the index i of   *)
(* the argument the for loop is at, the await the handler is suspended at  *)
(* (pc), the value it awaits (val), the messages collected (results),      *)
(* whether updateFileSystemItem found the item (wrote), and the result.    *)
(***************************************************************************)
InterleavedInputs ==
  { "mkdir proj", "mkdir Documents /x", "rm .bashrc", "rm nope .bashrc",
    "chmod 755 .bashrc", "chmod 755" }

NewHandler(s, command) ==
  [session |-> s, command |-> command, i |-> 0, pc |-> "start", val |-> FALSE,
   results |-> <<>>, wrote |-> FALSE, result |-> NoResult]

\* return { output, error, currentDirectory: this.currentDirectory, success }
Finish(fs, cwd, h, output, error, success) ==
  [fs |-> fs,
   h |-> [h EXCEPT !.pc = "return",
                   !.result = [output |-> output, error |-> error,
                               currentDirectory |-> cwd, success |-> success]]]

\* The head of the for loop of makeDirectory and removeFile at argument j:
\* `await storage.fileSystemItemExists(fullPath)`, or the return after the loop.
LoopTop(fs, cwd, h, j, results) ==
  LET args == ArgsOf(h.command)
  IN  IF j > Len(args)
      THEN Finish(fs, cwd, h, Join(results, "\n"),
                  IF Len(results) > 0 THEN results[1] ELSE Undefined,
                  Len(results) = 0)
      ELSE [fs |-> fs,
            h |-> [h EXCEPT !.i = j, !.pc = "exists", !.results = results,
                            !.val = fileSystemItemExists(fs, resolvePath(cwd, args[j]))]]

\* makeDirectory from one await to the next.
makeDirectoryStep(fs, cwd, h) ==
  LET args == ArgsOf(h.command)
      arg == args[h.i]
      fullPath == resolvePath(cwd, arg)
      parentPath == OrElse(Substring(fullPath, 0, LastIndexOf(fullPath, "/")), "/")
  IN  CASE h.pc = "start" ->
             IF Len(args) = 0
             THEN Finish(fs, cwd, h, "mkdir: missing operand", "Missing operand", FALSE)
             ELSE LoopTop(fs, cwd, h, 1, <<>>)
        [] h.pc = "exists" ->
             IF h.val
             THEN LoopTop(fs, cwd, h, h.i + 1,
                    Append(h.results, "mkdir: cannot create directory '" \o arg \o "': File exists"))
             ELSE [fs |-> fs,
                   h |-> [h EXCEPT !.pc = "parentExists",
                                   !.val = fileSystemItemExists(fs, parentPath)]]
        [] h.pc = "parentExists" ->
             IF ~h.val /\ parentPath # "/"
             THEN LoopTop(fs, cwd, h, h.i + 1,
                    Append(h.results, "mkdir: cannot create directory '" \o arg
                                      \o "': No such file or directory"))
             ELSE [fs |-> createFileSystemItem(fs,
                            [path |-> fullPath, name |-> BaseName(arg), type |-> "directory",
                             content |-> Null, permissions |-> "drwxr-xr-x", size |-> "4096"]),
                   h |-> [h EXCEPT !.pc = "created"]]
        [] h.pc = "created" -> LoopTop(fs, cwd, h, h.i + 1, h.results)

\* removeFile from one await to the next.
removeFileStep(fs, cwd, h) ==
  LET args == ArgsOf(h.command)
      arg == args[h.i]
      fullPath == resolvePath(cwd, arg)
  IN  CASE h.pc = "start" ->
             IF Len(args) = 0
             THEN Finish(fs, cwd, h, "rm: missing operand", "Missing operand", FALSE)
             ELSE LoopTop(fs, cwd, h, 1, <<>>)
        [] h.pc = "exists" ->
             IF ~h.val
             THEN LoopTop(fs, cwd, h, h.i + 1,
                    Append(h.results, "rm: cannot remove '" \o arg
                                      \o "': No such file or directory"))
             ELSE [fs |-> deleteFileSystemItem(fs, fullPath),
                   h |-> [h EXCEPT !.pc = "deleted",
                                   !.val = deleteFileSystemItemResult(fs, fullPath)]]
        [] h.pc = "deleted" ->
             LoopTop(fs, cwd, h, h.i + 1,
               IF ~h.val
               THEN Append(h.results, "rm: cannot remove '" \o arg \o "': Operation failed")
               ELSE h.results)

\* changePermissions from one await to the next.
changePermissionsStep(fs, cwd, h) ==
  LET args == ArgsOf(h.command)
      permissions == args[1]
      filename == args[2]
      filepath == resolvePath(cwd, filename)
  IN  CASE h.pc = "start" ->
             IF Len(args) < 2
             THEN Finish(fs, cwd, h, "chmod: missing operand", "Missing operand", FALSE)
             ELSE [fs |-> fs,
                   h |-> [h EXCEPT !.pc = "file",
                                   !.val = getFileSystemItem(fs, filepath) # NoItem]]
        [] h.pc = "file" ->
             IF ~h.val
             THEN Finish(fs, cwd, h,
                    "chmod: cannot access '" \o filename \o "': No such file or directory",
                    "File not found", FALSE)
             ELSE [fs |-> updateFileSystemItem(fs, filepath,
                            [permissions |-> "-" \o permissions]),
                   h |-> [h EXCEPT !.pc = "updated", !.wrote = MapHas(fs, filepath)]]
        [] h.pc = "updated" -> Finish(fs, cwd, h, "", Undefined, TRUE)

\* The switch of executeCommand, for the handlers above.
handlerStep(fs, cwd, h) ==
  CASE CmdOf(h.command) = "mkdir" -> makeDirectoryStep(fs, cwd, h)
    [] CmdOf(h.command) = "rm" -> removeFileStep(fs, cwd, h)
    [] CmdOf(h.command) = "chmod" -> changePermissionsStep(fs, cwd, h)

\* ws.on('message'): executeCommand is called and runs to its first await.
Receive(s, command) ==
  /\ s \in connected
  /\ ncalls < MaxCommands
  /\ LET r == handlerStep(fileSystem, currentDirectory[s], NewHandler(s, command))
     IN  /\ fileSystem' = r.fs
         /\ inflight' = Append(inflight, r.h)
  /\ commandHistory' = [commandHistory EXCEPT ![s] = Append(@, Trim(command))]
  /\ ncalls' = ncalls + 1
  /\ before' = [fileSystem |-> fileSystem, currentDirectory |-> currentDirectory[s],
                commandHistory |-> commandHistory[s]]
  /\ UNCHANGED <<connected, currentDirectory, lastSession, lastCommand, lastResult, fault,
                 client, socket>>

\* The handler of call k continues after its await, up to the next one.
Resume(k) ==
  /\ inflight[k].pc \notin {"return", "done"}
  /\ LET h == inflight[k]
         r == handlerStep(fileSystem, currentDirectory[h.session], h)
     IN  /\ fileSystem' = r.fs
         /\ inflight' = [inflight EXCEPT ![k] = r.h]
  /\ UNCHANGED <<connected, currentDirectory, commandHistory, ncalls, lastSession,
                 lastCommand, lastResult, before, fault, client, socket>>

\* `const result = await processor.executeCommand(...)` continues: ws.send.
Reply(k) ==
  /\ inflight[k].pc = "return"
  /\ inflight' = [inflight EXCEPT ![k].pc = "done"]
  /\ lastSession' = inflight[k].session
  /\ lastCommand' = inflight[k].command
  /\ lastResult' = inflight[k].result
  /\ fault' = FALSE
  /\ UNCHANGED <<fileSystem, connected, currentDirectory, commandHistory, ncalls, before,
                 client, socket>>

InterleavedNext ==
  \/ \E s \in Sessions : Connect(s)
  \/ \E s \in Sessions, command \in InterleavedInputs : Receive(s, command)
  \/ \E k \in DOMAIN inflight : Resume(k)
  \/ \E k \in DOMAIN inflight : Reply(k)

SpecInterleaved == Init /\ [][InterleavedNext]_vars

\* The handler has returned its result.
Returned(h) == h.pc \in {"return", "done"}

\* A handler that ran from call to return with no step of another handler in
\* between returns what executeCommand returns in one piece.
SerialHandlerMatchesCall ==
  (Len(inflight) = 1 /\ Returned(inflight[1]))
    => LET h == inflight[1]
           r == executeCommand(before.fileSystem, before.currentDirectory,
                               before.commandHistory, h.command)
       IN  h.result = r.result /\ fileSystem = r.fs

\* Two mkdir of the same path, which nothing occupied or removed, never both
\* report success.
NoDuplicateMkdir ==
  \A j, k \in DOMAIN inflight :
    /\ j # k
    /\ Returned(inflight[j]) /\ Returned(inflight[k])
    /\ inflight[j].command = "mkdir proj" /\ inflight[k].command = "mkdir proj"
    => ~(inflight[j].result.success /\ inflight[k].result.success)

\* A chmod reports success only when its update found the item it had
\* checked: no other command changed the path between check and write.
NoLostChmod ==
  \A k \in DOMAIN inflight :
    /\ Returned(inflight[k])
    /\ CmdOf(inflight[k].command) = "chmod"
    /\ inflight[k].result.success
    => inflight[k].wrote

\* C30: mutations of one path are serialised.  When the handlers of two
\* commands interleave at their awaits, two mkdir of the same unoccupied
\* path never both report success, and no command reports success for a
\* check-then-write on a path that another command changed in between.
C30_SerialisedMutations == NoDuplicateMkdir /\ NoLostChmod

(***************************************************************************)
(* C31: `rm p` on an existing path removes exactly the node at the         *)
(* resolved path: every other node, the descendants of a removed directory *)
(* included, is still in the store with unchanged fields, and the delete   *)
(* reports true iff a node existed at that path (no operand that named a   *)
(* node is reported as failed, every operand that named none is).          *)
(***************************************************************************)
C31_RemoveExactlyOne ==
  Called /\ CmdOf(lastCommand) = "rm" /\ Len(ArgsOf(lastCommand)) > 0 =>
    LET args == ArgsOf(lastCommand)
        paths == {resolvePath(before.currentDirectory, args[i]) : i \in 1..Len(args)}
        missing == SelectSeq(args, LAMBDA a :
                     ~MapHas(before.fileSystem, resolvePath(before.currentDirectory, a)))
    IN  /\ fileSystem = SelectSeq(before.fileSystem, LAMBDA e : e.key \notin paths)
        /\ \A p \in MapKeys(before.fileSystem) \ paths :
             MapGet(fileSystem, p) = MapGet(before.fileSystem, p)
        /\ \A p \in paths : deleteFileSystemItemResult(before.fileSystem, p)
                              = (p \in MapKeys(before.fileSystem) \ MapKeys(fileSystem))
        /\ ~Includes(lastResult.output, "Operation failed")
        /\ Cardinality(paths) = Len(args) =>
             /\ lastResult.success = (Len(missing) = 0)
             /\ Len(missing) > 0 => Len(Split(lastResult.output, "\n")) = Len(missing)

\* C31's case: a directory was removed and a node below it is still there.
C31_Witness ==
  /\ lastCommand = "rm /home/user"
  /\ lastResult.success
  /\ MapHas(before.fileSystem, "/home/user")
  /\ ~MapHas(fileSystem, "/home/user")
  /\ MapHas(fileSystem, "/home/user/.bashrc")
  /\ MapGet(fileSystem, "/home/user/.bashrc") = MapGet(before.fileSystem, "/home/user/.bashrc")

(***************************************************************************)
(* C32: the kind of the node at a path never changes while that path stays *)
(* occupied: no command applied to an existing path turns a directory into *)
(* a file or a file into a directory.                                      *)
(***************************************************************************)
C32_KindImmutable ==
  Called =>
    \A p \in MapKeys(before.fileSystem) \cap MapKeys(fileSystem) :
      MapGet(fileSystem, p).type = MapGet(before.fileSystem, p).type

(***************************************************************************)
(* C33: in every reachable state, every node of kind file has a non-null   *)
(* string content (possibly empty) and every node of kind directory has    *)
(* null content.                                                           *)
(***************************************************************************)
C33_ContentIffFile ==
  \A i \in 1..Len(fileSystem) :
    LET item == fileSystem[i].item
    IN  /\ item.type \in {"file", "directory"}
        /\ item.type = "file" => item.content \notin {Null, Undefined}
        /\ item.type = "directory" => item.content = Null

\* C33's case: a directory was copied and the copy carries null content,
\* next to a file that touch created with empty content.
C33_Witness ==
  /\ lastCommand = "cp Documents Projects/d"
  /\ lastResult.success
  /\ MapGet(fileSystem, "/home/user/Projects/d").type = "directory"
  /\ MapGet(fileSystem, "/home/user/Projects/d").content = Null
  /\ MapGet(fileSystem, "/home/user/a.txt").type = "file"
  /\ MapGet(fileSystem, "/home/user/a.txt").content = ""

(***************************************************************************)
(* C34: in every reachable state, every non-root node's name equals the    *)
(* final segment of its path (the text after the last `/`), for nodes      *)
(* created by every command, operands that themselves contain `/`          *)
(* included.                                                               *)
(***************************************************************************)
C34_NameIsLastSegment ==
  \A i \in 1..Len(fileSystem) :
    LET item == fileSystem[i].item
    IN  item.path # "/" =>
          item.name = SubstringFrom(item.path, LastIndexOf(item.path, "/") + 1)

(***************************************************************************)
(* C35: nodes are deleted only by `rm` (and by the source-removal step of  *)
(* `mv`): for every other command, every path occupied before the command  *)
(* is still occupied after it.                                             *)
(***************************************************************************)
C35_DeletedOnlyByRm ==
  Called /\ (IsBlank(lastCommand) \/ CmdOf(lastCommand) \notin {"rm", "mv"}) =>
    MapKeys(before.fileSystem) \subseteq MapKeys(fileSystem)

\* C35's case: cp wrote over an occupied path and every path, the source's
\* included, is still occupied.
C35_Witness ==
  /\ lastCommand = "cp .bashrc /home/user"
  /\ lastResult.success
  /\ fileSystem # before.fileSystem
  /\ MapHas(fileSystem, "/home/user/.bashrc")
  /\ MapKeys(before.fileSystem) = MapKeys(fileSystem)

(***************************************************************************)
(* C36: every command other than multi-path `mkdir` and `rm` that returns  *)
(* success=false leaves the store exactly as it was before the call: a     *)
(* failed command creates, changes and deletes nothing.                    *)
(***************************************************************************)
C36_FailureLeavesStore ==
  Called /\ ~lastResult.success
         /\ ~(CmdOf(lastCommand) \in {"mkdir", "rm"} /\ Len(ArgsOf(lastCommand)) > 1)
    => fileSystem = before.fileSystem

\* C36's case: javac refused an existing file that is no .java source, after
\* an earlier command had changed the store, and left the store alone.
C36_Witness ==
  /\ lastCommand = "javac .bashrc"
  /\ ncalls = 2
  /\ ~lastResult.success
  /\ MapHas(before.fileSystem, "/home/user/.bashrc")
  /\ before.fileSystem # initializeFileSystem
  /\ fileSystem = before.fileSystem

(***************************************************************************)
(* C37: the commands pwd, ls, cd, cat, grep, find, help, clear, whoami,    *)
(* uname, top/htop, ps, df, free, curl, python, node, java, make, npm,     *)
(* pip, nano/vim/vi, tar, zip/unzip, ssh, scp, rsync and every git         *)
(* subcommand other than clone never create, modify or delete any node,    *)
(* for every argument list (the aliases python3, nodejs and pip3 of the    *)
(* dispatch included).                                                     *)
(***************************************************************************)
ReadOnlyNames ==
  { "pwd", "ls", "cd", "cat", "grep", "find", "help", "clear", "whoami", "uname",
    "top", "htop", "ps", "df", "free", "curl", "python", "python3", "node", "nodejs",
    "java", "make", "npm", "pip", "pip3", "nano", "vim", "vi", "tar", "zip", "unzip",
    "ssh", "scp", "rsync" }

C37_ReadOnlyCommands ==
  Called /\ ~IsBlank(lastCommand)
         /\ \/ CmdOf(lastCommand) \in ReadOnlyNames
            \/ CmdOf(lastCommand) = "git" /\ At(ArgsOf(lastCommand), 0) # "clone"
    => fileSystem = before.fileSystem

\* C37's case: tar reported an archive as created, on a store that an
\* earlier command had changed, and no node was written.
C37_Witness ==
  /\ lastCommand = "tar -cf a.tar"
  /\ lastResult.success
  /\ Includes(lastResult.output, "Created archive")
  /\ before.fileSystem # initializeFileSystem
  /\ fileSystem = before.fileSystem

(***************************************************************************)
(* Replies.  Under SpecInterleaved, call k of inflight is the k-th command *)
(* message received, and Reply(k) is its ws.send.                          *)
(***************************************************************************)
\* The result message of call k has been sent.
Sent(k) == k \in DOMAIN inflight /\ inflight[k].pc = "done"

\* A continuation of some handler runs.
Continue == \E k \in DOMAIN inflight : Resume(k) \/ Reply(k)

\* Some handler has a continuation that is ready: Continue is enabled.
Pending == \E k \in DOMAIN inflight : inflight[k].pc # "done"

\* The scheduling of the event loop: while a continuation is ready, one runs.
\* This is WF_vars(Continue), with ENABLED <<Continue>>_vars written out as
\* Pending.
SpecInterleavedFair ==
  SpecInterleaved /\ ([]<>(~Pending) \/ []<><<Continue>>_vars)

\* Every received command message is answered.
EveryCommandAnswered ==
  \A k \in 1..MaxCommands : (k \in DOMAIN inflight) ~> Sent(k)

\* A call is answered once: a sent reply stays sent, with the result the
\* handler returned.
AnsweredOnce ==
  [][\A k \in DOMAIN inflight :
       Sent(k) => /\ inflight'[k] = inflight[k]
                  /\ ~ENABLED Reply(k)]_vars

\* C38: on one open connection, every received command message with a
\* non-empty command eventually produces exactly one result message, and the
\* results are sent in the order in which the commands were received, also
\* when a second command arrives while the first handler is suspended at an
\* await.  The order: a later command of a connection is never answered
\* while an earlier one of the same connection is not.
C38_RepliesInOrder ==
  \A j, k \in DOMAIN inflight :
    /\ j < k
    /\ inflight[j].session = inflight[k].session
    /\ Sent(k)
    => Sent(j)

(***************************************************************************)
(* The Terminal component of the browser.  client holds its React state;   *)
(* socket holds the messages between its WebSocket and the server, oldest  *)
(* first.  The source's messages carry no identifier: the id of a message  *)
(* and of a command entry, and the `from` of an entry, are the number of   *)
(* the ws.send that they stem from, kept for the properties only.  An      *)
(* entry without result holds NoResult.  The server answers the commands   *)
(* of the socket one after the other, each with executeCommand in one      *)
(* piece.                                                                  *)
(***************************************************************************)
ClientSession == 1

\* What the user types into the input.
ClientInputs == { "pwd", " mkdir proj ", "cd Documents", "  " }

\* The directories and the file of the file manager's listing.
ManagerDirectories == { "/", "/home/user/Documents" }

ManagerFiles == { "/home/user/.bashrc" }

Tabs == { "terminal", "files" }

\* renderOutput while the entries are rendered: the output of clear empties
\* commandEntries.
Render(entries) ==
  IF \E i \in 1..Len(entries) :
       entries[i].result # NoResult /\ entries[i].result.output = "<ESC>[2J<ESC>[H"
  THEN <<>>
  ELSE entries

\* ws.send(JSON.stringify({ type: 'command', command }))
Send(command) ==
  [socket EXCEPT !.nsent = @ + 1,
                 !.toServer = Append(@, [id |-> socket.nsent + 1, command |-> command])]

\* socket.onopen, and wss.on('connection') on the server.
Open ==
  /\ ~client.connected
  /\ ClientSession \notin connected
  /\ connected' = connected \cup {ClientSession}
  /\ currentDirectory' = [currentDirectory EXCEPT ![ClientSession] = "/home/user"]
  /\ commandHistory' = [commandHistory EXCEPT ![ClientSession] = <<>>]
  /\ client' = [client EXCEPT !.connected = TRUE]
  /\ UNCHANGED <<fileSystem, ncalls, lastSession, lastCommand, lastResult, before, fault,
                 inflight, socket>>

\* Tabs onValueChange
SelectTab(tab) ==
  /\ client.activeTab # tab
  /\ client' = [client EXCEPT !.activeTab = tab]
  /\ UNCHANGED <<serverVars, socket>>

\* input onChange; the input is disabled while not connected.
Change(text) ==
  /\ client.activeTab = "terminal"
  /\ client.connected
  /\ client' = [client EXCEPT !.currentInput = text]
  /\ UNCHANGED <<serverVars, socket>>

\* handleSubmit with a handler that keeps historyIndex where it is.
handleSubmit_keepIndex ==
  /\ client.activeTab = "terminal"
  /\ Trim(client.currentInput) # ""
  /\ client.connected
  /\ socket.nsent < MaxCommands
  /\ LET command == Trim(client.currentInput)
         entry == [command |-> command, result |-> NoResult,
                   id |-> socket.nsent + 1, from |-> 0]
     IN  /\ client' = [client EXCEPT
                         !.commandHistory = Append(@, command),
                         !.commandEntries = Render(Append(@, entry)),
                         !.currentInput = ""]
         /\ socket' = Send(command)
  /\ UNCHANGED serverVars

handleSubmit ==
  /\ client.activeTab = "terminal"
  /\ Trim(client.currentInput) # ""
  /\ client.connected
  /\ socket.nsent < MaxCommands
  /\ LET command == Trim(client.currentInput)
         entry == [command |-> command, result |-> NoResult,
                   id |-> socket.nsent + 1, from |-> 0]
     IN  /\ client' = [client EXCEPT
                         !.commandHistory = Append(@, command),
                         !.historyIndex = -1,
                         !.commandEntries = Render(Append(@, entry)),
                         !.currentInput = ""]
         /\ socket' = Send(command)
  /\ UNCHANGED serverVars

\* handleKeyDown, e.key === 'ArrowUp'
ArrowUp ==
  /\ client.activeTab = "terminal"
  /\ client.connected
  /\ LET newIndex == IF client.historyIndex = -1
                     THEN Len(client.commandHistory) - 1
                     ELSE Max(0, client.historyIndex - 1)
     IN  client' = IF Len(client.commandHistory) > 0
                   THEN [client EXCEPT !.historyIndex = newIndex,
                                       !.currentInput = client.commandHistory[newIndex + 1]]
                   ELSE client
  /\ UNCHANGED <<serverVars, socket>>

\* handleKeyDown, e.key === 'ArrowDown'
ArrowDown ==
  /\ client.activeTab = "terminal"
  /\ client.connected
  /\ LET newIndex == client.historyIndex + 1
     IN  client' = IF client.historyIndex = -1 THEN client
                   ELSE IF newIndex >= Len(client.commandHistory)
                   THEN [client EXCEPT !.historyIndex = -1, !.currentInput = ""]
                   ELSE [client EXCEPT !.historyIndex = newIndex,
                                       !.currentInput = client.commandHistory[newIndex + 1]]
  /\ UNCHANGED <<serverVars, socket>>

\* handleDirectoryChange(path), from the file manager
handleDirectoryChange(path) ==
  /\ client.activeTab = "files"
  /\ socket.nsent < MaxCommands
  /\ client' = [client EXCEPT !.currentDirectory = path]
  /\ socket' = IF client.connected THEN Send("cd " \o path) ELSE socket
  /\ UNCHANGED serverVars

\* handleFileSelect(file), from the file manager
handleFileSelect(path) ==
  /\ client.activeTab = "files"
  /\ socket.nsent < MaxCommands
  /\ client' = [client EXCEPT !.activeTab = "terminal"]
  /\ socket' = IF client.connected THEN Send("cat " \o path) ELSE socket
  /\ UNCHANGED serverVars

\* ws.on('message') on the server: the oldest command is executed and its
\* result sent.
Serve ==
  /\ socket.toServer # <<>>
  /\ Call(ClientSession, Head(socket.toServer).command)
  /\ socket' = [socket EXCEPT
                  !.toServer = Tail(@),
                  !.toClient = Append(@, [id |-> Head(socket.toServer).id,
                                          result |-> lastResult'])]
  /\ UNCHANGED client

\* socket.onmessage, case 'result'
onmessage ==
  /\ socket.toClient # <<>>
  /\ LET message == Head(socket.toClient)
         prev == client.commandEntries
         n == Len(prev)
         newEntries == IF n > 0 /\ prev[n].result = NoResult
                       THEN [prev EXCEPT ![n].result = message.result,
                                         ![n].from = message.id]
                       ELSE prev
     IN  client' = [client EXCEPT !.currentDirectory = message.result.currentDirectory,
                                  !.commandEntries = Render(newEntries)]
  /\ socket' = [socket EXCEPT !.toClient = Tail(@)]
  /\ UNCHANGED serverVars

ClientNext ==
  \/ Open
  \/ \E tab \in Tabs : SelectTab(tab)
  \/ \E text \in ClientInputs : Change(text)
  \/ handleSubmit
  \/ ArrowUp
  \/ ArrowDown
  \/ \E path \in ManagerDirectories : handleDirectoryChange(path)
  \/ \E path \in ManagerFiles : handleFileSelect(path)
  \/ Serve
  \/ onmessage

SpecClient == Init /\ [][ClientNext]_vars

\* The result of send number id has been handled by onmessage.
Delivered(id) ==
  /\ id <= socket.nsent
  /\ \A i \in 1..Len(socket.toServer) : socket.toServer[i].id # id
  /\ \A i \in 1..Len(socket.toClient) : socket.toClient[i].id # id

\* C39: in the client, every result message is attached to the command
\* entry of the command that produced it: when two commands are submitted
\* before the first result arrives, or when the file manager sends cd / cat
\* commands that have no command entry, no result is attached to a different
\* command's entry and no result of a submitted command is dropped.
C39_ResultOnOwnEntry ==
  \A i \in 1..Len(client.commandEntries) :
    LET entry == client.commandEntries[i]
    IN  /\ entry.result # NoResult => entry.from = entry.id
        /\ Delivered(entry.id) => entry.result # NoResult

(***************************************************************************)
(* C40: in the client's history navigation, after any sequence of submit,  *)
(* ArrowUp and ArrowDown events historyIndex is either -1 or a valid index *)
(* of commandHistory: ArrowUp from -1 selects the last entry and never     *)
(* moves below index 0, ArrowDown past the last entry returns to -1 with   *)
(* an empty input, ArrowDown at -1 does nothing, and every submit appends  *)
(* the command and resets historyIndex to -1.                              *)
(***************************************************************************)
HistoryIndexValid ==
  \/ client.historyIndex = -1
  \/ client.historyIndex \in 0..(Len(client.commandHistory) - 1)

C40_HistoryNavigation ==
  /\ HistoryIndexValid
  /\ [][LET n == Len(client.commandHistory)
            i == client.historyIndex
        IN  /\ ArrowUp =>
                 /\ client'.commandHistory = client.commandHistory
                 /\ n = 0 => client' = client
                 /\ n > 0 /\ i = -1 => client'.historyIndex = n - 1
                 /\ n > 0 /\ i = 0 => client'.historyIndex = 0
                 /\ n > 0 /\ i > 0 => client'.historyIndex = i - 1
                 /\ n > 0 => client'.currentInput
                               = client.commandHistory[client'.historyIndex + 1]
            /\ ArrowDown =>
                 /\ client'.commandHistory = client.commandHistory
                 /\ i = -1 => client' = client
                 /\ i # -1 /\ i + 1 >= n =>
                      client'.historyIndex = -1 /\ client'.currentInput = ""
                 /\ i # -1 /\ i + 1 < n =>
                      /\ client'.historyIndex = i + 1
                      /\ client'.currentInput = client.commandHistory[i + 2]
            /\ handleSubmit =>
                 /\ client'.commandHistory
                      = Append(client.commandHistory, Trim(client.currentInput))
                 /\ client'.historyIndex = -1
            /\ HistoryIndexValid']_vars

\* C40's case: after two submits ArrowUp was pressed twice and the first
\* command is selected, at index 0.
C40_Witness ==
  /\ Len(client.commandHistory) = 2
  /\ client.historyIndex = 0
  /\ client.currentInput = client.commandHistory[1]
  /\ client.commandHistory[1] # client.commandHistory[2]

====
